---- MODULE Spec2Model ----
(***************************************************************************)
(* Outbound delivery path of the Wazzup relay: the Redis-backed queue      *)
(* service (wazzup-message-queue-service.ts), the queue worker             *)
(* (wazzup-queue-worker.ts) and the reply hand-off of the webhook route.   *)
(*                                                                         *)
(* Granularity: synchronous JavaScript between two awaits that reach the   *)
(* network is one step; every await on Redis or on the HTTP send API is a  *)
(* step boundary.  The evaluation of `while (this.isRunning)` happens in   *)
(* the same step as the completion of the await before it.                 *)
(***************************************************************************)
EXTENDS Integers, Sequences, FiniteSets, TLC

(* ------------------------------ bounds -------------------------------- *)
\* replies the webhook route hands over in one run
MaxMsgs == 2
\* replies the webhook enqueues while start() and stop() are exercised
MaxLifecycleMsgs == 1
\* backend outages (each makes every Redis command fail while it lasts)
MaxOutages == 1
\* largest value of Date.now() (the clock advances while an HTTP send runs)
MaxClock == 1
\* consumer loops start() may spawn in one run
MaxLoops == 3
\* worker processes draining the same main list
Workers == 2
\* stop() calls in one run
MaxStops == 3
\* calls the direct API client makes in one run
MaxCalls == 3
\* largest attempt the direct API client passes in a message
MaxArg == 3

\* workers the singleton accessor may construct in one run
MaxBuilt == 3
\* getWazzupQueueWorker() calls in one run
MaxGets == 4
\* stopWazzupQueueWorker() calls in one run
MaxSingletonStops == 2
\* concurrent callers of one service instance
MaxCallers == 2
\* connect() calls on one client in one run
MaxConnects == 2
\* messages of each kind in one webhook payload
MaxPayload == 2
\* unparseable elements other clients append to main
MaxGarbage == 2
\* largest count passed to getDeadLetters
MaxCount == 2

(* ------------------------- program constants -------------------------- *)
\* maxRetries = 3 (constructor default)
DEFAULT_MAX_RETRIES == 3
\* options.pollTimeoutSeconds ?? 1
DEFAULT_POLL_TIMEOUT_SECONDS == 1
\* a property that is undefined (attempt?, timestamp?, refMessageId?)
Undefined == -1

VARIABLES
  main, dead,                   \* Redis lists <prefix>:main, <prefix>:dead-letters
  backendUp, outages,           \* Redis reachable; outages so far
  now,                          \* Date.now()
  maxRetries, pollTimeoutSeconds,   \* constructor options
  isOpen, connectPromise,       \* per service instance: client.isOpen, connectPromise
  isRunning, processingPromise, \* WazzupQueueWorker fields
  pc, msg,                      \* per consumer loop: position, message in hand
  stopPc, stopAwait,            \* per stop() call: position, loop it awaits
  routePc, routeMsg, replies,   \* sendReplyToWazzup: position, payload, replies so far
  calls, last, blocked,         \* direct API client: calls made, last call, pending dequeue
  pushed, popped,               \* records appended to main / popped from main so far
  born, fails, direct, delivered, quiesced, warned,   \* history
  globalWorker, constructed, workerRunning, loopsSpawned,   \* module-level singleton and the workers it built
  singletonStop, gets, returnedSince, queueEnabled,   \* stopWazzupQueueWorker calls; getWazzupQueueWorker calls and what they returned
  waiting, attempts, connects, opensAtCall,   \* ensureClient callers awaiting connectPromise; connect() calls in flight / so far
  failed,                                     \* ensureClient callers whose awaited connect() rejected and whose catch has yet to run
  stopService, hasMemory, allowedChatIds,   \* route module: redisStopFlagService non-null, agent.getMemory() non-null, resolveTargetChatIds()
  flags, lastFlagCall,          \* keys present in the stop-flag store; last store call that completed, per chatId
  phase, left, seen, records, response, storeThrew,   \* the webhook request being handled
  useQueue, httpResult,         \* USE_WAZZUP_QUEUE; outcome of the direct HTTP send of each reply
  apiToken, fetched,            \* WAZZUP_API_TOKEN as the worker module read it; texts the worker has POSTed
  garbage, dropped              \* unparseable elements put into main by other clients / dropped by dequeue

backendVars == <<main, dead, backendUp, outages>>
cfgVars == <<maxRetries, pollTimeoutSeconds>>
connVars == <<isOpen, connectPromise>>
workerVars == <<isRunning, processingPromise, pc, msg>>
stopVars == <<stopPc, stopAwait>>
routeVars == <<routePc, routeMsg, replies>>
apiVars == <<calls, last, blocked>>
countVars == <<pushed, popped>>
histVars == <<born, fails, direct, delivered, quiesced, warned>>
coreVars == <<backendVars, now, cfgVars, connVars, workerVars, stopVars, routeVars,
              apiVars, countVars, histVars>>
singletonVars == <<globalWorker, constructed, workerRunning, loopsSpawned, singletonStop,
                   gets, returnedSince, queueEnabled>>
connectVars == <<waiting, attempts, connects, opensAtCall, failed>>
webhookVars == <<stopService, hasMemory, allowedChatIds, flags, lastFlagCall, phase, left,
                 seen, records, response, storeThrew>>
tokenVars == <<apiToken, fetched>>
sendVars == <<useQueue, httpResult, tokenVars>>
parseVars == <<garbage, dropped>>
extVars == <<singletonVars, connectVars, webhookVars, sendVars, parseVars>>
vars == <<coreVars, extVars>>

Services == {"worker", "route", "api", "flags"}
Loops == 1..MaxLoops
Stops == 1..MaxStops
Texts == 1..MaxMsgs
Built == 1..MaxBuilt
SingletonStops == 1..MaxSingletonStops
Callers == 1..MaxCallers
\* chat identifiers a payload may carry
ChatIds == {"c1", "c2"}
\* a property the payload leaves out reads undefined
Missing == "undefined"
\* nothing handled yet in this request
NoSeen == [kind |-> "none"]

(* ------------------------ WazzupOutboundMessage ----------------------- *)
RequiredFields == {"channelId", "chatType", "chatId", "text"}
OptionalFields == {"refMessageId", "attempt", "timestamp"}
Fields == RequiredFields \cup OptionalFields

NoMsg == [channelId |-> "", chatType |-> "", chatId |-> "", text |-> 0,
          refMessageId |-> Undefined, attempt |-> Undefined, timestamp |-> Undefined]

\* JSON.stringify: a property whose value is undefined is left out
JSONstringify(message) ==
  [k \in RequiredFields \cup {f \in OptionalFields : message[f] # Undefined} |-> message[k]]

\* a list element that is not JSON text
Garbage == [raw |-> "not json"]

\* a parse that accepted any element
isJSONAlways(element) == TRUE

\* JSON.parse(result.element) returns (it throws a SyntaxError otherwise)
isJSON(element) == "raw" \notin DOMAIN element

\* JSON.parse, read through WazzupOutboundMessage: a missing property reads undefined
JSONparse(element) ==
  [k \in Fields |-> IF k \in DOMAIN element THEN element[k] ELSE Undefined]

\* message.attempt ?? 0
attemptOr0(message) == IF message.attempt = Undefined THEN 0 ELSE message.attempt

(* ------------------------------ enqueue ------------------------------- *)
\* a payload that stamped every enqueue with the current time
enqueuePayloadFreshTimestamp(message, t) ==
  [message EXCEPT !.attempt = attemptOr0(message) + 1, !.timestamp = t]

\* a payload that kept the attempt it was given
enqueuePayloadKeepsAttempt(message, t) ==
  [message EXCEPT !.attempt = attemptOr0(message),
                  !.timestamp = IF message.timestamp = Undefined THEN t ELSE message.timestamp]

\* payload = {...message, attempt: (message.attempt ?? 0) + 1,
\*            timestamp: message.timestamp ?? Date.now()}
enqueuePayload(message, t) ==
  [message EXCEPT !.attempt = attemptOr0(message) + 1,
                  !.timestamp = IF message.timestamp = Undefined THEN t
                                ELSE message.timestamp]

\* a push at the head of the list
rPushAtHead(list, value) == <<value>> \o list

\* client.rPush(key, value)
rPush(list, value) == Append(list, value)

(* --------------------------- retryMessage ----------------------------- *)
\* an exhaustion test that allowed one attempt more
retryMessageExhaustedOffByOne(message) == attemptOr0(message) > maxRetries

\* (message.attempt ?? 0) >= this.maxRetries
retryMessageExhausted(message) == attemptOr0(message) >= maxRetries

\* a retryMessage that incremented attempt itself, on top of enqueue's increment
retryMessageArgIncrements(message) == [message EXCEPT !.attempt = attemptOr0(message) + 1]

\* a retryMessage that handed enqueue the message without its timestamp
retryMessageArgDropsTimestamp(message) ==
  [message EXCEPT !.attempt = attemptOr0(message), !.timestamp = Undefined]

\* the argument retryMessage hands to enqueue: {...message, attempt: message.attempt ?? 0}
retryMessageArg(message) == [message EXCEPT !.attempt = attemptOr0(message)]

(* --------------------------- ensureClient ----------------------------- *)
\* ensureClient followed by one Redis command succeeds: the client is open, or no
\* connection was made yet and connect() succeeds.  A client closed by quit() keeps
\* its resolved connectPromise, so ensureClient returns without reconnecting and the
\* command is rejected.
canUse(s) == backendUp /\ (isOpen[s] \/ connectPromise[s] = "undefined")

\* the connection state ensureClient leaves behind
ensureClient(s) ==
  IF ~isOpen[s] /\ connectPromise[s] = "undefined" /\ backendUp
  THEN /\ isOpen' = [isOpen EXCEPT ![s] = TRUE]
       /\ connectPromise' = [connectPromise EXCEPT ![s] = "resolved"]
  ELSE UNCHANGED connVars

\* a further command of the same operation (no ensureClient before it)
canUseOpen(s) == backendUp /\ isOpen[s]

(* ----------------------------- backend -------------------------------- *)
\* Redis becomes unreachable: every command issued while it lasts is rejected
backendDown ==
  /\ backendUp /\ outages < MaxOutages
  /\ backendUp' = FALSE /\ outages' = outages + 1
  /\ UNCHANGED <<main, dead, now, cfgVars, connVars, workerVars, stopVars, routeVars,
                 apiVars, countVars, histVars, extVars>>

\* Redis is reachable again (the client reconnects by itself; isOpen stays as it was)
backendRestored ==
  /\ ~backendUp
  /\ backendUp' = TRUE
  /\ UNCHANGED <<main, dead, outages, now, cfgVars, connVars, workerVars, stopVars,
                 routeVars, apiVars, countVars, histVars, extVars>>

(* ------------------- WazzupQueueWorker.processQueue ------------------- *)
\* a loop that returned after its first iteration
loopTopOnce == "done"

\* `while (this.isRunning)`: the next iteration calls dequeue, or the loop returns
loopTop == IF isRunning THEN "dequeue" ELSE "done"

\* BLPOP key timeout: a timeout of 0 blocks until an element arrives
blPopTimesOut(timeoutSeconds) == timeoutSeconds > 0

\* a pop that read the head and left it in the list
blPopRestKeepsHead(list) == list

\* blPop removes and returns the head of the list
blPopRest(list) == Tail(list)

\* a blPop already written to the socket when quit() closed the client is still
\* answered by the server, or rejected with the closing socket
dequeueCanComplete(l) == backendUp /\ (pc[l] = "dequeue_issued" \/ canUse("worker"))

dequeueMayThrow(l) == pc[l] = "dequeue_issued" \/ ~canUse("worker")

\* dequeue rejects (ensureClient or blPop throws): caught by processQueue, which sleeps
processQueueDequeueThrows(l) ==
  /\ pc[l] \in {"dequeue", "dequeue_issued"} /\ dequeueMayThrow(l)
  /\ pc' = [pc EXCEPT ![l] = "sleep"]
  /\ UNCHANGED <<backendVars, now, cfgVars, connVars, isRunning, processingPromise, msg,
                 stopVars, routeVars, apiVars, countVars, histVars, extVars>>

\* blPop times out on an empty list: dequeue returns null, the loop continues
processQueueDequeueNull(l) ==
  /\ pc[l] \in {"dequeue", "dequeue_issued"} /\ dequeueCanComplete(l)
  /\ main = <<>> /\ blPopTimesOut(pollTimeoutSeconds)
  /\ IF pc[l] = "dequeue" THEN ensureClient("worker") ELSE UNCHANGED connVars
  /\ pc' = [pc EXCEPT ![l] = loopTop]
  /\ UNCHANGED <<backendVars, now, cfgVars, isRunning, processingPromise, msg,
                 stopVars, routeVars, apiVars, countVars, histVars, extVars>>

\* blPop pops the head; dequeue parses it and processMessage starts the send
processQueueDequeueMessage(l) ==
  /\ pc[l] \in {"dequeue", "dequeue_issued"} /\ dequeueCanComplete(l)
  /\ main # <<>> /\ isJSON(Head(main))
  /\ IF pc[l] = "dequeue" THEN ensureClient("worker") ELSE UNCHANGED connVars
  /\ main' = blPopRest(main)
  /\ popped' = popped + 1
  /\ msg' = [msg EXCEPT ![l] = JSONparse(Head(main))]
  /\ pc' = [pc EXCEPT ![l] = "send"]
  /\ UNCHANGED <<dead, backendUp, outages, now, cfgVars, isRunning, processingPromise,
                 stopVars, routeVars, apiVars, pushed, histVars, extVars>>

\* blPop pops an element JSON.parse rejects: dequeue logs the error and returns null,
\* and processQueue continues with its next iteration (`if (!message) continue`)
processQueueDequeueUnparsed(l) ==
  /\ pc[l] \in {"dequeue", "dequeue_issued"} /\ dequeueCanComplete(l)
  /\ main # <<>> /\ ~isJSON(Head(main))
  /\ IF pc[l] = "dequeue" THEN ensureClient("worker") ELSE UNCHANGED connVars
  /\ main' = blPopRest(main)
  /\ popped' = popped + 1
  /\ dropped' = dropped + 1
  /\ pc' = [pc EXCEPT ![l] = loopTop]
  /\ UNCHANGED <<dead, backendUp, outages, now, cfgVars, isRunning, processingPromise, msg,
                 stopVars, routeVars, apiVars, pushed, histVars, singletonVars,
                 connectVars, webhookVars, sendVars, garbage>>

\* `await this.sleep(1000)` in the catch of processQueue
processQueueSleep(l) ==
  /\ pc[l] = "sleep"
  /\ pc' = [pc EXCEPT ![l] = loopTop]
  /\ UNCHANGED <<backendVars, now, cfgVars, connVars, isRunning, processingPromise, msg,
                 stopVars, routeVars, apiVars, countVars, histVars, extVars>>

(* ------------------ WazzupQueueWorker.processMessage ------------------ *)
tick == IF now < MaxClock THEN now + 1 ELSE now

\* a sendToWazzup that goes on to fetch whatever the token
tokenConfiguredAlways == TRUE

\* `if (!WAZZUP_API_TOKEN) { ...; return false; }`: an absent or empty token is falsy
tokenConfigured == apiToken \notin {Missing, ""}

\* sendToWazzup returned true (the token is configured, the POST was answered 2xx): the
\* message is dropped
processMessageSent(l) ==
  /\ pc[l] = "send" /\ tokenConfigured
  /\ now' = tick
  /\ fetched' = fetched \cup {msg[l].text}
  /\ delivered' = delivered \cup {msg[l].text}
  /\ msg' = [msg EXCEPT ![l] = NoMsg]
  /\ pc' = [pc EXCEPT ![l] = loopTop]
  /\ UNCHANGED <<backendVars, cfgVars, connVars, isRunning, processingPromise,
                 stopVars, routeVars, apiVars, countVars, born, fails, direct, quiesced, warned,
                 singletonVars, connectVars, webhookVars, useQueue, httpResult, apiToken,
                 parseVars>>

\* sendToWazzup returned false (no token: nothing was fetched; else non-2xx, timeout,
\* network error): retryMessage is next
processMessageSendFailed(l) ==
  /\ pc[l] = "send"
  /\ now' = tick
  /\ fetched' = IF tokenConfigured THEN fetched \cup {msg[l].text} ELSE fetched
  /\ fails' = [fails EXCEPT ![msg[l].text] = @ + 1]
  /\ pc' = [pc EXCEPT ![l] = "retry"]
  /\ UNCHANGED <<backendVars, cfgVars, connVars, isRunning, processingPromise, msg,
                 stopVars, routeVars, apiVars, countVars, born, direct, delivered, quiesced, warned,
                 singletonVars, connectVars, webhookVars, useQueue, httpResult, apiToken,
                 parseVars>>

\* a processQueue without its try/catch: an exception leaving processMessage ends the loop
thrownToUnhandled(at) == IF at \in {"retry", "retry_len"} THEN "catch" ELSE "done"

\* where an exception of retryMessage goes: from the try block to the catch block of
\* processMessage (which calls retryMessage again), from the catch block out of
\* processMessage to the catch of processQueue
thrownTo(at) == IF at \in {"retry", "retry_len"} THEN "catch" ELSE "sleep"

\* the message stays in hand only while processMessage still handles it
inHandAfterThrow(l) == IF thrownTo(pc[l]) = "catch" THEN msg[l] ELSE NoMsg

\* retryMessage rejects before anything was pushed (ensureClient or rPush throws)
retryMessageThrows(l) ==
  /\ pc[l] \in {"retry", "catch"} /\ ~canUse("worker")
  /\ pc' = [pc EXCEPT ![l] = thrownTo(pc[l])]
  /\ msg' = [msg EXCEPT ![l] = inHandAfterThrow(l)]
  /\ UNCHANGED <<backendVars, now, cfgVars, connVars, isRunning, processingPromise,
                 stopVars, routeVars, apiVars, countVars, histVars, extVars>>

\* attempt >= maxRetries: rPush(dead-letters, JSON.stringify(message)); return false
retryMessageDeadLetter(l) ==
  /\ pc[l] \in {"retry", "catch"} /\ canUse("worker")
  /\ retryMessageExhausted(msg[l])
  /\ ensureClient("worker")
  /\ dead' = rPush(dead, JSONstringify(msg[l]))
  /\ msg' = [msg EXCEPT ![l] = NoMsg]
  /\ pc' = [pc EXCEPT ![l] = loopTop]
  /\ UNCHANGED <<main, backendUp, outages, now, cfgVars, isRunning, processingPromise,
                 stopVars, routeVars, apiVars, countVars, histVars, extVars>>

\* attempt < maxRetries: enqueue({...message, attempt}) pushes the record to main;
\* the lLen of its debug log is still to come
retryMessageEnqueue(l) ==
  /\ pc[l] \in {"retry", "catch"} /\ canUse("worker")
  /\ ~retryMessageExhausted(msg[l])
  /\ ensureClient("worker")
  /\ main' = rPush(main, JSONstringify(enqueuePayload(retryMessageArg(msg[l]), now)))
  /\ pushed' = pushed + 1
  /\ pc' = [pc EXCEPT ![l] = IF pc[l] = "retry" THEN "retry_len" ELSE "catch_len"]
  /\ UNCHANGED <<dead, backendUp, outages, now, cfgVars, isRunning, processingPromise,
                 msg, stopVars, routeVars, apiVars, popped, histVars, extVars>>

\* the lLen in enqueue's log succeeds: enqueue returns, retryMessage returns true
retryMessageRequeued(l) ==
  /\ pc[l] \in {"retry_len", "catch_len"} /\ canUseOpen("worker")
  /\ msg' = [msg EXCEPT ![l] = NoMsg]
  /\ pc' = [pc EXCEPT ![l] = loopTop]
  /\ UNCHANGED <<backendVars, now, cfgVars, connVars, isRunning, processingPromise,
                 stopVars, routeVars, apiVars, countVars, histVars, extVars>>

\* the lLen in enqueue's log rejects after the rPush went through: enqueue and
\* retryMessage reject
retryMessageLenThrows(l) ==
  /\ pc[l] \in {"retry_len", "catch_len"} /\ ~canUseOpen("worker")
  /\ pc' = [pc EXCEPT ![l] = thrownTo(pc[l])]
  /\ msg' = [msg EXCEPT ![l] = inHandAfterThrow(l)]
  /\ UNCHANGED <<backendVars, now, cfgVars, connVars, isRunning, processingPromise,
                 stopVars, routeVars, apiVars, countVars, histVars, extVars>>

(* -------------------- sendReplyToWazzup (webhook route) ---------------- *)
\* the payload sendReplyToWazzup hands to enqueue: no attempt, no timestamp, no
\* refMessageId (processInboundMessages leaves it out)
replyPayload(text) ==
  [channelId |-> "channel", chatType |-> "whatsapp", chatId |-> "77066318623",
   text |-> text, refMessageId |-> Undefined, attempt |-> Undefined,
   timestamp |-> Undefined]

\* messageQueueService.enqueue pushes the reply to main; its lLen is still to come
sendReplyEnqueue ==
  /\ routePc = "idle" /\ replies < MaxMsgs /\ canUse("route")
  /\ ensureClient("route")
  /\ main' = rPush(main, JSONstringify(enqueuePayload(replyPayload(replies + 1), now)))
  /\ pushed' = pushed + 1
  /\ born' = [born EXCEPT ![replies + 1] = now]
  /\ routeMsg' = replyPayload(replies + 1)
  /\ replies' = replies + 1
  /\ routePc' = "len"
  /\ UNCHANGED <<dead, backendUp, outages, now, cfgVars, workerVars, stopVars, apiVars,
                 popped, fails, direct, delivered, quiesced, warned, extVars>>

\* enqueue rejects before the push: the catch dispatches sendReplyViaHttp in the
\* background and returns
sendReplyEnqueueThrows ==
  /\ routePc = "idle" /\ replies < MaxMsgs /\ ~canUse("route")
  /\ direct' = direct \cup {replies + 1}
  /\ replies' = replies + 1
  /\ UNCHANGED <<backendVars, now, cfgVars, connVars, workerVars, stopVars, routePc,
                 routeMsg, apiVars, countVars, born, fails, delivered, quiesced, warned, extVars>>

\* the lLen of enqueue's log succeeds: the reply is queued, sendReplyToWazzup returns
sendReplyQueued ==
  /\ routePc = "len" /\ canUseOpen("route")
  /\ routePc' = "idle" /\ routeMsg' = NoMsg
  /\ UNCHANGED <<backendVars, now, cfgVars, connVars, workerVars, stopVars, replies,
                 apiVars, countVars, histVars, extVars>>

\* the lLen rejects after the push: the catch dispatches sendReplyViaHttp as well
sendReplyLenThrows ==
  /\ routePc = "len" /\ ~canUseOpen("route")
  /\ direct' = direct \cup {routeMsg.text}
  /\ routePc' = "idle" /\ routeMsg' = NoMsg
  /\ UNCHANGED <<backendVars, now, cfgVars, connVars, workerVars, stopVars, replies,
                 apiVars, countVars, born, fails, delivered, quiesced, warned, extVars>>

(* ----------------------- WazzupQueueWorker.start ---------------------- *)
\* a start() without the isRunning test
startRefusesNever == FALSE

\* `if (this.isRunning) { warn; return; }`
startRefuses == isRunning

\* the loop object the next processQueue() call creates
newLoop == CHOOSE l \in Loops : pc[l] = "unborn" /\ \A k \in Loops : pc[k] = "unborn" => l <= k

\* start(): a no-op when running; else isRunning = true and processingPromise =
\* processQueue(), which runs up to its first await (the dequeue of the first
\* iteration) before start() returns
start ==
  /\ \E l \in Loops : pc[l] = "unborn"
  /\ quiesced' = FALSE
  /\ IF startRefuses
     THEN /\ warned' = TRUE
          /\ UNCHANGED workerVars
     ELSE /\ isRunning' = TRUE
          /\ processingPromise' = newLoop
          /\ pc' = [pc EXCEPT ![newLoop] = "dequeue"]
          /\ UNCHANGED <<msg, warned>>
  /\ UNCHANGED <<backendVars, now, cfgVars, connVars, stopVars, routeVars, apiVars,
                 countVars, born, fails, direct, delivered, extVars>>

(* ----------------------- WazzupQueueWorker.stop ----------------------- *)
\* `if (!this.isRunning) return;`
stopReturnsAtOnce == ~isRunning

\* stop(): returns at once when not running; else isRunning = false and the call
\* awaits the processingPromise it reads at that moment
stopCall(k) ==
  /\ stopPc[k] = "idle" /\ \A j \in Stops : j < k => stopPc[j] # "idle"
  /\ IF stopReturnsAtOnce
     THEN /\ stopPc' = [stopPc EXCEPT ![k] = "resolved"]
          /\ quiesced' = TRUE
          /\ UNCHANGED <<isRunning, stopAwait>>
     ELSE /\ isRunning' = FALSE
          /\ stopAwait' = [stopAwait EXCEPT ![k] = processingPromise]
          /\ stopPc' = [stopPc EXCEPT ![k] = "await_loop"]
          /\ quiesced' = quiesced
  /\ UNCHANGED <<backendVars, now, cfgVars, connVars, processingPromise, pc, msg,
                 routeVars, apiVars, countVars, born, fails, direct, delivered, warned, extVars>>

\* the awaited loop has returned: stop() calls queueService.disconnect().  With an
\* open client that is client.quit(), which closes the client for new commands at
\* once; with a client that is not open disconnect() does nothing and stop() resolves
stopDisconnect(k) ==
  /\ stopPc[k] = "await_loop" /\ pc[stopAwait[k]] = "done"
  /\ IF isOpen["worker"]
     THEN /\ isOpen' = [isOpen EXCEPT !["worker"] = FALSE]
          /\ pc' = [l \in Loops |-> IF pc[l] = "dequeue" THEN "dequeue_issued" ELSE pc[l]]
          /\ stopPc' = [stopPc EXCEPT ![k] = "quit"]
          /\ quiesced' = quiesced
     ELSE /\ stopPc' = [stopPc EXCEPT ![k] = "resolved"]
          /\ quiesced' = TRUE
          /\ UNCHANGED <<isOpen, pc>>
  /\ UNCHANGED <<backendVars, now, cfgVars, connectPromise, isRunning, processingPromise,
                 msg, stopAwait, routeVars, apiVars, countVars, born, fails, direct,
                 delivered, warned, extVars>>

\* client.quit() settles: stop() resolves, or rejects when Redis is unreachable
stopQuitSettles(k) ==
  /\ stopPc[k] = "quit"
  /\ stopPc' = [stopPc EXCEPT ![k] = IF backendUp THEN "resolved" ELSE "rejected"]
  /\ quiesced' = (quiesced \/ backendUp)
  /\ UNCHANGED <<backendVars, now, cfgVars, connVars, workerVars, stopAwait, routeVars,
                 apiVars, countVars, born, fails, direct, delivered, warned, extVars>>

(* ------------------------------- Init --------------------------------- *)
NoCall == [op |-> "none", after |-> "none", arg |-> NoMsg, timeout |-> Undefined, at |-> Undefined,
           ret |-> "none", message |-> NoMsg, queueLength |-> Undefined,
           deadLetterLength |-> Undefined, count |-> Undefined, items |-> <<>>]

\* the state after construction: both lists as the run finds them (empty), no client
\* connected; a worker constructed with enabled !== false has called start()
InitCore(enabledChoices, retryChoices, pollChoices, workers) ==
  /\ main = <<>> /\ dead = <<>>
  /\ backendUp = TRUE /\ outages = 0
  /\ now = 0
  /\ maxRetries \in retryChoices
  /\ pollTimeoutSeconds \in pollChoices
  /\ isOpen = [s \in Services |-> FALSE]
  /\ connectPromise = [s \in Services |-> "undefined"]
  /\ \E enabled \in enabledChoices :
       /\ isRunning = enabled
       /\ processingPromise = IF enabled THEN 1 ELSE 0
       /\ pc = [l \in Loops |-> IF enabled /\ l <= workers THEN "dequeue" ELSE "unborn"]
  /\ msg = [l \in Loops |-> NoMsg]
  /\ garbage = 0 /\ dropped = 0
  /\ stopPc = [k \in Stops |-> "idle"]
  /\ stopAwait = [k \in Stops |-> 0]
  /\ routePc = "idle" /\ routeMsg = NoMsg /\ replies = 0
  /\ calls = 0 /\ last = NoCall /\ blocked = Undefined
  /\ pushed = 0 /\ popped = 0
  /\ born = [t \in Texts |-> Undefined]
  /\ fails = [t \in Texts |-> 0]
  /\ direct = {} /\ delivered = {}
  /\ quiesced = FALSE /\ warned = FALSE

\* no singleton accessor called yet; WAZZUP_QUEUE_ENABLED as the process finds it
InitSingletonWith(enabledChoices) ==
  /\ globalWorker = 0 /\ constructed = 0
  /\ workerRunning = [w \in Built |-> FALSE]
  /\ loopsSpawned = [w \in Built |-> 0]
  /\ singletonStop = [k \in SingletonStops |-> [at |-> "idle", worker |-> 0]]
  /\ gets = 0 /\ returnedSince = {}
  /\ queueEnabled \in enabledChoices

\* no ensureClient call in progress; whether the client reports isOpen from the call of
\* connect() on or only once connected is the library's choice
InitConnectWith(openChoices) ==
  /\ waiting = [s \in Services |-> {}]
  /\ attempts = [s \in Services |-> 0]
  /\ connects = [s \in Services |-> 0]
  /\ opensAtCall \in openChoices
  /\ failed = [s \in Services |-> {}]

\* no webhook request received yet; the stop-flag store holds no key; no reply sent over
\* HTTP yet. The module-level configuration is what the process finds at load
InitRouteWith(storeChoices, memoryChoices, allowChoices, queueChoices, tokenChoices) ==
  /\ stopService \in storeChoices
  /\ hasMemory \in memoryChoices
  /\ allowedChatIds \in allowChoices
  /\ flags = {}
  /\ lastFlagCall = [c \in ChatIds |-> "none"]
  /\ phase = "idle" /\ left = [inbound |-> 0, outbound |-> 0]
  /\ seen = NoSeen /\ records = {} /\ response = 0 /\ storeThrew = FALSE
  /\ useQueue \in queueChoices
  /\ httpResult = [t \in Texts |-> "none"]
  /\ apiToken \in tokenChoices /\ fetched = {}

InitRoute == InitRouteWith({TRUE}, {TRUE}, {ChatIds}, {TRUE}, {"token"})

InitOf(enabledChoices, retryChoices, pollChoices, workers) ==
  /\ InitCore(enabledChoices, retryChoices, pollChoices, workers)
  /\ InitSingletonWith({TRUE})
  /\ InitConnectWith({TRUE})
  /\ InitRoute

\* one worker process
InitWith(enabledChoices, retryChoices, pollChoices) ==
  InitOf(enabledChoices, retryChoices, pollChoices, 1)

(* ------------- the queue and one worker, started at construction ------ *)
Init == InitWith({TRUE}, 1..DEFAULT_MAX_RETRIES, {DEFAULT_POLL_TIMEOUT_SECONDS})

processQueue(l) ==
  \/ processQueueDequeueThrows(l)
  \/ processQueueDequeueNull(l)
  \/ processQueueDequeueMessage(l)
  \/ processQueueSleep(l)

processMessage(l) ==
  \/ processMessageSent(l)
  \/ processMessageSendFailed(l)
  \/ retryMessageThrows(l)
  \/ retryMessageDeadLetter(l)
  \/ retryMessageEnqueue(l)
  \/ retryMessageRequeued(l)
  \/ retryMessageLenThrows(l)

sendReplyToWazzup ==
  \/ sendReplyEnqueue
  \/ sendReplyEnqueueThrows
  \/ sendReplyQueued
  \/ sendReplyLenThrows

Next ==
  \/ backendDown
  \/ backendRestored
  \/ \E l \in Loops : processQueue(l)
  \/ \E l \in Loops : processMessage(l)
  \/ sendReplyToWazzup

Spec == Init /\ [][Next]_vars

(* ------------ several worker processes draining the same list -------- *)
InitWorkers == InitOf({TRUE}, {2}, {DEFAULT_POLL_TIMEOUT_SECONDS}, Workers)

\* the workers and the webhook with the backend reachable throughout
NextWorkers ==
  \/ \E l \in Loops : processQueueDequeueNull(l)
  \/ \E l \in Loops : processQueueDequeueMessage(l)
  \/ \E l \in Loops : processMessageSent(l)
  \/ \E l \in Loops : processMessageSendFailed(l)
  \/ \E l \in Loops : retryMessageDeadLetter(l)
  \/ \E l \in Loops : retryMessageEnqueue(l)
  \/ \E l \in Loops : retryMessageRequeued(l)
  \/ sendReplyEnqueue
  \/ sendReplyQueued

SpecWorkers == InitWorkers /\ [][NextWorkers]_vars

(* ------- the workers under fair scheduling, the backend reachable ----- *)
\* the next step of consumer loop l: the completion of the await it is suspended at
loopStep(l) ==
  \/ processQueueDequeueNull(l)
  \/ processQueueDequeueMessage(l)
  \/ processMessageSent(l)
  \/ processMessageSendFailed(l)
  \/ retryMessageDeadLetter(l)
  \/ retryMessageEnqueue(l)
  \/ retryMessageRequeued(l)

\* Redis answers every command and the send returns by its timer (sendToWazzup clears
\* the timer only in its finally), so every await of a loop completes and the event
\* loop runs its continuation
InitFair == InitOf({TRUE}, {2}, {DEFAULT_POLL_TIMEOUT_SECONDS}, 1)

SpecFair == InitFair /\ [][NextWorkers]_vars /\ \A l \in Loops : WF_vars(loopStep(l))

(* ---- one worker under fair scheduling, the send token set or not ---- *)
\* WAZZUP_API_TOKEN as the environment may hold it: absent, empty, or a token
ApiTokens == {Missing, "", "token"}

InitToken ==
  /\ InitCore({TRUE}, 1..DEFAULT_MAX_RETRIES, {DEFAULT_POLL_TIMEOUT_SECONDS}, 1)
  /\ InitSingletonWith({TRUE})
  /\ InitConnectWith({TRUE})
  /\ InitRouteWith({TRUE}, {TRUE}, {ChatIds}, {TRUE}, ApiTokens)

SpecToken == InitToken /\ [][NextWorkers]_vars /\ \A l \in Loops : WF_vars(loopStep(l))

(* ------- the dead-letter list read and purged while a worker runs ---- *)
\* LRANGE key start stop: zero-based, both ends inclusive, a negative index counts from
\* the end of the list (-1 is the last element), an end past the list is the last element
lRange(list, startIndex, stopIndex) ==
  LET n == Len(list)
      from == IF startIndex >= 0 THEN startIndex
              ELSE IF n + startIndex < 0 THEN 0 ELSE n + startIndex
      to == IF stopIndex < 0 THEN n + stopIndex
            ELSE IF stopIndex >= n THEN n - 1 ELSE stopIndex
  IN  IF from > to \/ from >= n THEN <<>> ELSE SubSeq(list, from + 1, to + 1)

\* items.map(JSON.parse, null on a SyntaxError).filter(item !== null)
parseItems(items) ==
  LET kept == SelectSeq(items, isJSON)
  IN  [i \in 1..Len(kept) |-> JSONparse(kept[i])]

\* DEL key
del(list) == <<>>

\* getDeadLetters(count): lRange(deadLetterKey, 0, count - 1), parsed
getDeadLetters(count) ==
  /\ blocked = Undefined /\ canUse("api")
  /\ ensureClient("api")
  /\ last' = [NoCall EXCEPT !.op = "getDeadLetters", !.count = count, !.ret = "messages",
                            !.items = parseItems(lRange(dead, 0, count - 1))]
  /\ UNCHANGED <<backendVars, now, cfgVars, workerVars, stopVars, routeVars, calls,
                 blocked, countVars, histVars, extVars>>

\* clearDeadLetters(): del(deadLetterKey)
clearDeadLetters ==
  /\ blocked = Undefined /\ calls < MaxCalls /\ canUse("api")
  /\ ensureClient("api")
  /\ dead' = del(dead)
  /\ calls' = calls + 1
  /\ last' = [NoCall EXCEPT !.op = "clearDeadLetters", !.ret = "number"]
  /\ UNCHANGED <<main, backendUp, outages, now, cfgVars, workerVars, stopVars, routeVars,
                 blocked, countVars, histVars, extVars>>

\* another client of the same Redis appends an element that is not JSON to
\* dead-letters (one such element in the list at a time)
rPushGarbageDeadLetters ==
  /\ backendUp /\ garbage < MaxGarbage
  /\ \A i \in DOMAIN dead : isJSON(dead[i])
  /\ dead' = rPush(dead, Garbage)
  /\ garbage' = garbage + 1
  /\ UNCHANGED <<main, backendUp, outages, now, cfgVars, connVars, workerVars, stopVars,
                 routeVars, apiVars, countVars, histVars, singletonVars, connectVars,
                 webhookVars, sendVars, dropped>>

InitDeadLetters == InitOf({TRUE}, {2}, {DEFAULT_POLL_TIMEOUT_SECONDS}, 1)

NextDeadLetters ==
  \/ \E l \in Loops : loopStep(l)
  \/ replies < MaxLifecycleMsgs /\ sendReplyEnqueue
  \/ sendReplyQueued
  \/ \E count \in 0..MaxCount : getDeadLetters(count)
  \/ clearDeadLetters
  \/ rPushGarbageDeadLetters

SpecDeadLetters == InitDeadLetters /\ [][NextDeadLetters]_vars

(* ------- a worker draining a list other clients also write to --------- *)
\* another client of the same Redis appends an element that is not JSON
rPushGarbage ==
  /\ backendUp /\ garbage < MaxGarbage
  /\ main' = rPush(main, Garbage)
  /\ pushed' = pushed + 1
  /\ garbage' = garbage + 1
  /\ UNCHANGED <<dead, backendUp, outages, now, cfgVars, connVars, workerVars, stopVars,
                 routeVars, apiVars, popped, histVars, singletonVars, connectVars,
                 webhookVars, sendVars, dropped>>

InitUnparsed == InitOf({TRUE}, {2}, {DEFAULT_POLL_TIMEOUT_SECONDS}, 1)

NextUnparsed ==
  \/ rPushGarbage
  \/ NextWorkers
  \/ \E l \in Loops : processQueueDequeueUnparsed(l)

SpecUnparsed == InitUnparsed /\ [][NextUnparsed]_vars

(* ------------- the worker's lifecycle: start() and stop() calls ------- *)
\* the values of options.pollTimeoutSeconds the runs construct the worker with
PollTimeouts == 0..DEFAULT_POLL_TIMEOUT_SECONDS

InitLifecycle == InitWith(BOOLEAN, {1}, PollTimeouts)

\* a stop() call whose awaited loop has returned continues in a microtask, before any
\* other call or I/O completion gets to run
continuationPending == \E k \in Stops : stopPc[k] = "await_loop" /\ pc[stopAwait[k]] = "done"

NextLifecycle ==
  \/ \E k \in Stops : stopDisconnect(k)
  \/ ~continuationPending /\ start
  \/ ~continuationPending /\ \E k \in Stops : stopCall(k)
  \/ ~continuationPending /\ \E k \in Stops : stopQuitSettles(k)
  \/ ~continuationPending /\ \E l \in Loops : processQueue(l)
  \/ ~continuationPending /\ \E l \in Loops : processMessage(l)
  \/ ~continuationPending /\ replies < MaxLifecycleMsgs /\ sendReplyEnqueue
  \/ ~continuationPending /\ sendReplyQueued

SpecLifecycle == InitLifecycle /\ [][NextLifecycle]_vars

\* every await of a loop and of a stop() call completes when Redis answers it, and the
\* event loop then runs the continuation
SpecLifecycleFair ==
  /\ SpecLifecycle
  /\ \A l \in Loops : WF_vars(~continuationPending /\ (processQueue(l) \/ processMessage(l)))
  /\ \A k \in Stops : WF_vars(stopDisconnect(k) \/ (~continuationPending /\ stopQuitSettles(k)))

(* ------- the service's operations called directly, one at a time ------ *)
\* the messages, attempts and timeouts the direct calls pass
ApiAttempts == {Undefined} \cup 0..MaxArg
ApiTimestamps == {Undefined, 0}
ApiMessages ==
  {[replyPayload(1) EXCEPT !.attempt = a, !.timestamp = t] :
     a \in ApiAttempts, t \in ApiTimestamps}

\* client.lLen(key)
lLen(list) == Len(list)

\* enqueue(message) runs to its end
enqueue(message) ==
  /\ blocked = Undefined /\ calls < MaxCalls /\ canUse("api")
  /\ ensureClient("api")
  /\ main' = rPush(main, JSONstringify(enqueuePayload(message, now)))
  /\ pushed' = pushed + 1
  /\ calls' = calls + 1
  /\ last' = [NoCall EXCEPT !.op = "enqueue", !.after = last.op, !.arg = message, !.at = now, !.ret = "void"]
  /\ UNCHANGED <<dead, backendUp, outages, now, cfgVars, workerVars, stopVars, routeVars,
                 blocked, popped, histVars, extVars>>

\* retryMessage(message) runs to its end: dead-letters and false, or enqueue and true
retryMessage(message) ==
  /\ blocked = Undefined /\ calls < MaxCalls /\ canUse("api")
  /\ ensureClient("api")
  /\ IF retryMessageExhausted(message)
     THEN /\ dead' = rPush(dead, JSONstringify(message))
          /\ UNCHANGED <<main, pushed>>
     ELSE /\ main' = rPush(main, JSONstringify(enqueuePayload(retryMessageArg(message), now)))
          /\ pushed' = pushed + 1
          /\ dead' = dead
  /\ calls' = calls + 1
  /\ last' = [NoCall EXCEPT !.op = "retryMessage", !.after = last.op, !.arg = message, !.at = now,
                            !.ret = IF retryMessageExhausted(message) THEN "false" ELSE "true"]
  /\ UNCHANGED <<backendUp, outages, now, cfgVars, workerVars, stopVars, routeVars,
                 blocked, popped, histVars, extVars>>

\* dequeue(timeoutSeconds): blPop returns the head at once, or the call blocks
dequeue(timeoutSeconds) ==
  /\ blocked = Undefined /\ calls < MaxCalls /\ canUse("api")
  /\ ensureClient("api")
  /\ calls' = calls + 1
  /\ IF main # <<>>
     THEN /\ main' = blPopRest(main)
          /\ popped' = popped + 1
          /\ last' = [NoCall EXCEPT !.op = "dequeue", !.after = last.op, !.timeout = timeoutSeconds, !.at = now,
                                    !.ret = "message", !.message = JSONparse(Head(main))]
          /\ blocked' = blocked
     ELSE /\ blocked' = timeoutSeconds
          /\ last' = [NoCall EXCEPT !.op = "dequeue", !.after = last.op, !.timeout = timeoutSeconds, !.at = now,
                                    !.ret = "pending"]
          /\ UNCHANGED <<main, popped>>
  /\ UNCHANGED <<dead, backendUp, outages, now, cfgVars, workerVars, stopVars, routeVars,
                 pushed, histVars, extVars>>

\* the blocked blPop times out: dequeue returns null
dequeueNull ==
  /\ blocked # Undefined /\ main = <<>> /\ blPopTimesOut(blocked)
  /\ blocked' = Undefined
  /\ last' = [last EXCEPT !.ret = "null"]
  /\ UNCHANGED <<backendVars, now, cfgVars, connVars, workerVars, stopVars, routeVars,
                 calls, countVars, histVars, extVars>>

\* getStats(): the two lLen
getStats ==
  /\ blocked = Undefined /\ calls < MaxCalls /\ canUse("api")
  /\ ensureClient("api")
  /\ calls' = calls + 1
  /\ last' = [NoCall EXCEPT !.op = "getStats", !.after = last.op, !.at = now, !.ret = "stats",
                            !.queueLength = lLen(main), !.deadLetterLength = lLen(dead)]
  /\ UNCHANGED <<backendVars, now, cfgVars, workerVars, stopVars, routeVars, blocked,
                 countVars, histVars, extVars>>

\* time passes between two calls
timePasses ==
  /\ now < MaxClock
  /\ now' = now + 1
  /\ UNCHANGED <<backendVars, cfgVars, connVars, workerVars, stopVars, routeVars, apiVars,
                 countVars, histVars, extVars>>

InitApi == InitWith({FALSE}, {0, DEFAULT_MAX_RETRIES}, {DEFAULT_POLL_TIMEOUT_SECONDS})

NextApi ==
  \/ \E message \in ApiMessages : enqueue(message)
  \/ \E message \in ApiMessages : retryMessage(message)
  \/ \E timeoutSeconds \in PollTimeouts : dequeue(timeoutSeconds)
  \/ dequeueNull
  \/ getStats
  \/ timePasses

SpecApi == InitApi /\ [][NextApi]_vars


(* --------- getWazzupQueueWorker / stopWazzupQueueWorker (singleton) --- *)
\* an accessor without the test: every call constructs
globalWorkerMissingAlways == TRUE

\* `if (!globalWorker)`
globalWorkerMissing == globalWorker = 0

\* getWazzupQueueWorker(): constructs the worker when there is none (its constructor
\* calls start() unless WAZZUP_QUEUE_ENABLED is 'false') and returns globalWorker
getWazzupQueueWorker ==
  /\ gets < MaxGets
  /\ gets' = gets + 1
  /\ IF globalWorkerMissing
     THEN /\ constructed < MaxBuilt
          /\ constructed' = constructed + 1
          /\ globalWorker' = constructed + 1
          /\ workerRunning' = [workerRunning EXCEPT ![constructed + 1] = queueEnabled]
          /\ loopsSpawned' = [loopsSpawned EXCEPT ![constructed + 1] =
                                IF queueEnabled THEN 1 ELSE 0]
     ELSE UNCHANGED <<constructed, globalWorker, workerRunning, loopsSpawned>>
  /\ returnedSince' = returnedSince \cup {globalWorker'}
  /\ UNCHANGED <<coreVars, singletonStop, queueEnabled, connectVars, webhookVars, sendVars, parseVars>>

\* stopWazzupQueueWorker(): nothing to do without a worker; else `await
\* globalWorker.stop()`, which returns at once on a worker that is not running (then
\* globalWorker = null follows in the same turn) or clears isRunning and waits
stopWazzupQueueWorkerCall(k) ==
  /\ singletonStop[k].at = "idle"
  /\ \A j \in SingletonStops : j < k => singletonStop[j].at # "idle"
  /\ returnedSince' = {}
  /\ IF globalWorker = 0
     THEN /\ singletonStop' = [singletonStop EXCEPT ![k] = [at |-> "resolved", worker |-> 0]]
          /\ UNCHANGED <<globalWorker, workerRunning>>
     ELSE IF ~workerRunning[globalWorker]
     THEN /\ singletonStop' = [singletonStop EXCEPT ![k] =
                                 [at |-> "resolved", worker |-> globalWorker]]
          /\ globalWorker' = 0
          /\ UNCHANGED workerRunning
     ELSE /\ singletonStop' = [singletonStop EXCEPT ![k] =
                                 [at |-> "await_stop", worker |-> globalWorker]]
          /\ workerRunning' = [workerRunning EXCEPT ![globalWorker] = FALSE]
          /\ UNCHANGED globalWorker
  /\ UNCHANGED <<coreVars, constructed, loopsSpawned, gets, queueEnabled, connectVars,
                 webhookVars, sendVars, parseVars>>

\* the awaited stop() resolves: globalWorker = null
stopWazzupQueueWorkerDone(k) ==
  /\ singletonStop[k].at = "await_stop"
  /\ singletonStop' = [singletonStop EXCEPT ![k].at = "resolved"]
  /\ globalWorker' = 0
  /\ returnedSince' = {}
  /\ UNCHANGED <<coreVars, constructed, workerRunning, loopsSpawned, gets, queueEnabled,
                 connectVars, webhookVars, sendVars, parseVars>>

InitSingleton ==
  /\ InitCore({FALSE}, {DEFAULT_MAX_RETRIES}, {DEFAULT_POLL_TIMEOUT_SECONDS}, 1)
  /\ InitSingletonWith(BOOLEAN)
  /\ InitConnectWith({TRUE})
  /\ InitRoute

NextSingleton ==
  \/ getWazzupQueueWorker
  \/ \E k \in SingletonStops : stopWazzupQueueWorkerCall(k)
  \/ \E k \in SingletonStops : stopWazzupQueueWorkerDone(k)

SpecSingleton == InitSingleton /\ [][NextSingleton]_vars


(* ------------- ensureClient, call by call (both services) ------------- *)
\* the services whose ensureClient is followed call by call: the route's queue service
\* and the stop-flag store
ConnectServices == {"route", "flags"}

\* an ensureClient that connects on every call
startsAttemptAlways(s) == TRUE

\* `this.connectPromise ??= this.client.connect()`: connect() is called only when no
\* promise is stored
startsAttempt(s) == connectPromise[s] = "undefined"

\* ensureClient() called by c while the client is not open: stores the promise of a new
\* connect() if there is none, then awaits the stored promise
ensureClientCall(s, c) ==
  /\ ~isOpen[s] /\ c \notin waiting[s] /\ connectPromise[s] # "resolved"
  /\ IF startsAttempt(s)
     THEN /\ connects[s] < MaxConnects
          /\ connects' = [connects EXCEPT ![s] = @ + 1]
          /\ attempts' = [attempts EXCEPT ![s] = @ + 1]
          /\ connectPromise' = [connectPromise EXCEPT ![s] = "pending"]
          /\ isOpen' = [isOpen EXCEPT ![s] = opensAtCall]
     ELSE UNCHANGED <<connects, attempts, connectPromise, isOpen>>
  /\ waiting' = [waiting EXCEPT ![s] = @ \cup {c}]
  /\ UNCHANGED <<backendVars, now, cfgVars, workerVars, stopVars, routeVars, apiVars,
                 countVars, histVars, singletonVars, opensAtCall, failed, webhookVars,
                 sendVars, parseVars>>

\* connect() resolves: every caller awaiting the promise goes on to its command
connectResolves(s) ==
  /\ connectPromise[s] = "pending" /\ backendUp
  /\ isOpen' = [isOpen EXCEPT ![s] = TRUE]
  /\ connectPromise' = [connectPromise EXCEPT ![s] = "resolved"]
  /\ attempts' = [attempts EXCEPT ![s] = @ - 1]
  /\ waiting' = [waiting EXCEPT ![s] = {}]
  /\ UNCHANGED <<backendVars, now, cfgVars, workerVars, stopVars, routeVars, apiVars,
                 countVars, histVars, singletonVars, connects, opensAtCall, failed,
                 webhookVars, sendVars, parseVars>>

\* connect() rejects: the stored promise is rejected, and the await of every waiting
\* caller throws into its catch
connectRejects(s) ==
  /\ connectPromise[s] = "pending" /\ ~backendUp
  /\ isOpen' = [isOpen EXCEPT ![s] = FALSE]
  /\ connectPromise' = [connectPromise EXCEPT ![s] = "rejected"]
  /\ attempts' = [attempts EXCEPT ![s] = @ - 1]
  /\ failed' = [failed EXCEPT ![s] = waiting[s]]
  /\ waiting' = [waiting EXCEPT ![s] = {}]
  /\ UNCHANGED <<backendVars, now, cfgVars, workerVars, stopVars, routeVars, apiVars,
                 countVars, histVars, singletonVars, connects, opensAtCall,
                 webhookVars, sendVars, parseVars>>

\* a catch that rethrows and leaves the rejected promise stored
catchKeeps(s) == connectPromise

\* `this.connectPromise = undefined` in the catch of ensureClient
catchClears(s) == [connectPromise EXCEPT ![s] = "undefined"]

\* the catch of caller c: clears the stored promise, whatever it is by now, and rethrows
ensureClientCatch(s, c) ==
  /\ c \in failed[s]
  /\ connectPromise' = catchClears(s)
  /\ failed' = [failed EXCEPT ![s] = @ \ {c}]
  /\ UNCHANGED <<backendVars, now, cfgVars, isOpen, workerVars, stopVars, routeVars,
                 apiVars, countVars, histVars, singletonVars, waiting, attempts,
                 connects, opensAtCall, webhookVars, sendVars, parseVars>>

\* the reactions to one rejection are queued together when the promise rejects and run
\* back to back: no other call of the service runs between two of them
reactionsPending == \E s \in Services : failed[s] # {}

\* WazzupMessageQueueService.disconnect(): quit() on an open client; connectPromise stays
disconnect(s) ==
  /\ s = "route" /\ isOpen[s] /\ connectPromise[s] = "resolved"
  /\ isOpen' = [isOpen EXCEPT ![s] = FALSE]
  /\ UNCHANGED <<backendVars, now, cfgVars, connectPromise, workerVars, stopVars,
                 routeVars, apiVars, countVars, histVars, extVars>>

InitConnect ==
  /\ InitCore({FALSE}, {DEFAULT_MAX_RETRIES}, {DEFAULT_POLL_TIMEOUT_SECONDS}, 1)
  /\ InitSingletonWith({TRUE})
  /\ InitConnectWith(BOOLEAN)
  /\ InitRoute

NextConnect ==
  \/ ~reactionsPending /\ \E s \in ConnectServices, c \in Callers : ensureClientCall(s, c)
  \/ ~reactionsPending /\ \E s \in ConnectServices : connectResolves(s)
  \/ ~reactionsPending /\ \E s \in ConnectServices : connectRejects(s)
  \/ \E s \in ConnectServices, c \in Callers : ensureClientCatch(s, c)
  \/ ~reactionsPending /\ \E s \in ConnectServices : disconnect(s)
  \/ ~reactionsPending /\ backendDown
  \/ ~reactionsPending /\ backendRestored

SpecConnect == InitConnect /\ [][NextConnect]_vars


(* ------------------- webhook route: filter and stop gate --------------- *)
\* a JS string that is truthy: neither undefined nor empty
truthy(x) == x \notin {Missing, ""}

\* message text: a body, possibly wrapped in whitespace, possibly in upper case
\* (an absent text reads as the empty body)
MessageTexts ==
  {[ws |-> FALSE, upper |-> FALSE, body |-> b] : b \in {"/stop", "/start", "hi", ""}}
    \cup {[ws |-> TRUE, upper |-> TRUE, body |-> "/stop"]}

\* String.prototype.trim / toLowerCase
trim(text) == [text EXCEPT !.ws = FALSE]
toLowerCase(text) == [text EXCEPT !.upper = FALSE]

\* messages the provider may deliver as inbound (channelId and chatType present), here
\* with a plain text and no attachment
InboundMessages ==
  [isEcho : {Missing, "false", "true"},
   status : {Missing, "", "inbound", "sent", "delivered"},
   chatId : {Missing, ""} \cup ChatIds,
   text : {[ws |-> FALSE, upper |-> FALSE, body |-> "hi"]},
   contentUri : {Missing}, type : {Missing}]

\* inbound messages of an allowed chat with or without text and attachment (a text that
\* is not a string has body undefined)
InboundContents ==
  [isEcho : {Missing}, status : {"inbound"}, chatId : {"c1"},
   text : [ws : {TRUE}, upper : {FALSE}, body : {Missing, "", "hi"}],
   contentUri : {Missing, "uri"}, type : {Missing, "audio", "image", "video"}]

\* a resolver that emits no generic line for an attachment it does not understand
resolveMessageTextKnownTypes(message, media) ==
  LET originalText == IF message.text.body # Missing THEN trim(message.text).body ELSE ""
      segments == IF originalText # "" THEN <<"text">> ELSE <<>>
  IN  IF truthy(message.contentUri) /\ message.type = "audio"
      THEN Append(segments, IF media = "described" THEN "transcript" ELSE "audio link")
      ELSE IF truthy(message.contentUri) /\ message.type = "image"
      THEN Append(segments, IF media = "described" THEN "description" ELSE "image link")
      ELSE segments

\* resolveMessageText: the segments produced, in order (none: the result is null); media
\* is what the media collaborator returns, a text or nothing
resolveMessageText(message, media) ==
  LET originalText == IF message.text.body # Missing THEN trim(message.text).body ELSE ""
      segments == IF originalText # "" THEN <<"text">> ELSE <<>>
  IN  IF truthy(message.contentUri) /\ message.type = "audio"
      THEN Append(segments, IF media = "described" THEN "transcript" ELSE "audio link")
      ELSE IF truthy(message.contentUri) /\ message.type = "image"
      THEN Append(segments, IF media = "described" THEN "description" ELSE "image link")
      ELSE IF segments = <<>> /\ truthy(message.contentUri)
      THEN <<"content link">>
      ELSE segments

\* messages the outbound pass may meet
OutboundMessages ==
  {m \in [chatId : ChatIds, status : {"sent", "delivered"}, isEcho : {"false", "true"},
          authorName : {Missing, "operator"}, text : MessageTexts] :
     m.isEcho = "false" => m.authorName = Missing}

\* a filter that does not look at message.status
shouldHandleMessageAnyStatus(message, allowed) ==
  /\ message.isEcho # "true"
  /\ truthy(message.chatId)
  /\ allowed # {}
  /\ message.chatId \in allowed

shouldHandleMessage(message, allowed) ==
  /\ message.isEcho # "true"
  /\ ~(truthy(message.status) /\ message.status # "inbound")
  /\ truthy(message.chatId)
  /\ allowed # {}
  /\ message.chatId \in allowed

shouldPersistOutboundMessage(message) ==
  /\ truthy(message.chatId)
  /\ message.status # "inbound"
  /\ message.status = "sent"

\* the trimmed text, or null (here the empty body) when nothing is left of it
resolveOutboundMessageText(message) == trim(message.text)

\* `message.isEcho === true && !message.authorName ? 'agent' : 'manager'`
source(message) ==
  IF message.isEcho = "true" /\ ~truthy(message.authorName) THEN "agent" ELSE "manager"

\* key prefixes: the route's store is built with the default prefix, the agent's stop
\* processor with its own
WriterPrefix == "mastra:input-stop"
ReaderPrefix == "baqyt:input-stop"

\* a store that keeps one key for all chats
buildKeyShared(prefix, chatId) == <<prefix, "">>

\* `${this.keyPrefix}:${chatId}`
buildKey(prefix, chatId) == <<prefix, chatId>>

\* client.set(key, 'stop') / client.del(key)
setStop(chatId) == flags \cup {buildKey(WriterPrefix, chatId)}
clearStop(chatId) == flags \ {buildKey(WriterPrefix, chatId)}

\* the agent's stop processor: the conversation is stopped when its key is present
stopCheck(chatId) == buildKey(ReaderPrefix, chatId) \in flags

\* the handler has parsed and authorised a payload of nIn inbound messages and nOut
\* messages for the outbound pass
handleWebhook(nIn, nOut) ==
  /\ phase = "idle"
  /\ phase' = "handling"
  /\ left' = [inbound |-> nIn, outbound |-> nOut]
  /\ seen' = NoSeen /\ records' = {} /\ response' = 0 /\ storeThrew' = FALSE
  /\ UNCHANGED <<coreVars, singletonVars, connectVars, stopService, hasMemory,
                 allowedChatIds, flags, lastFlagCall, sendVars, parseVars>>

\* the handler answers without processing: the body is not JSON (400), the service
\* refuses the authorization (401), or the service throws something else (500)
rejectWebhook(status) ==
  /\ phase = "idle"
  /\ response' = status
  /\ left' = [inbound |-> 0, outbound |-> 0]
  /\ seen' = NoSeen /\ records' = {} /\ storeThrew' = FALSE
  /\ UNCHANGED <<coreVars, singletonVars, connectVars, stopService, hasMemory,
                 allowedChatIds, flags, lastFlagCall, phase, sendVars, parseVars>>

\* one iteration of processInboundMessages: filter, resolveMessageText, agent.generate
\* (which runs the stop processor first), sendReplyToWazzup for a reply (queued, or sent
\* by the fallback when enqueue throws). outcome is what the engine does: it returns a
\* reply or none, throws, throws an AbortError (which ends the pass: `return`), or never
\* returns
processInboundMessages(message, media, outcome) ==
  /\ phase = "handling" /\ left.inbound > 0 /\ seen.kind # "awaiting agent"
  /\ LET handled == shouldHandleMessage(message, allowedChatIds)
         userText == resolveMessageText(message, media)
         took == IF ~handled THEN "skipped"
                 ELSE IF userText = <<>> THEN "dropped"
                 ELSE IF stopCheck(message.chatId) THEN "stopped"
                 ELSE outcome
     IN  /\ seen' = [kind |-> IF took = "hangs" THEN "awaiting agent" ELSE "inbound",
                     m |-> message, handled |-> handled, media |-> media,
                     userText |-> userText,
                     took |-> took,
                     replied |-> took \in {"reply", "reply by fallback"}]
         /\ left' = [left EXCEPT !.inbound =
                       IF took = "timeout" THEN 0
                       ELSE IF took = "hangs" THEN @ ELSE @ - 1]
  /\ UNCHANGED <<coreVars, singletonVars, connectVars, stopService, hasMemory,
                 allowedChatIds, flags, lastFlagCall, phase, records, response,
                 storeThrew, sendVars, parseVars>>

\* what a rejected store call does to the loop: the catch logs and the loop continues
afterStoreCallUncaught(ok) == IF ok THEN "continue" ELSE "throw"

afterStoreCall(ok) == "continue"

\* one iteration of persistOutboundMessages (nothing is done without agent memory)
persistOutboundMessages(message, ok) ==
  /\ phase = "handling" /\ left.inbound = 0 /\ left.outbound > 0
  /\ LET text == resolveOutboundMessageText(message)
         trimmed == toLowerCase(trim(text))
         kept == /\ hasMemory
                 /\ shouldPersistOutboundMessage(message)
                 /\ message.chatId \in allowedChatIds
                 /\ text.body # ""
         command == IF kept /\ source(message) # "agent" /\ stopService
                         /\ trimmed.body \in {"/stop", "/start"}
                    THEN trimmed.body ELSE "none"
         threw == command # "none" /\ ~ok
     IN  /\ seen' = [kind |-> "outbound", m |-> message,
                     called |-> IF command = "/stop" THEN "setStop"
                                ELSE IF command = "/start" THEN "clearStop" ELSE "none",
                     threw |-> threw]
         /\ storeThrew' = (storeThrew \/ threw)
         /\ IF command # "none" /\ ok
            THEN /\ flags' = IF command = "/stop" THEN setStop(message.chatId)
                             ELSE clearStop(message.chatId)
                 /\ lastFlagCall' = [lastFlagCall EXCEPT ![message.chatId] =
                                       IF command = "/stop" THEN "setStop" ELSE "clearStop"]
            ELSE UNCHANGED <<flags, lastFlagCall>>
         /\ records' = IF kept /\ command = "none"
                       THEN records \cup {[chatId |-> message.chatId, text |-> text]}
                       ELSE records
         /\ IF threw /\ afterStoreCall(ok) = "throw"
            THEN /\ phase' = "idle" /\ response' = 500
                 /\ left' = [left EXCEPT !.outbound = 0]
            ELSE /\ left' = [left EXCEPT !.outbound = @ - 1]
                 /\ UNCHANGED <<phase, response>>
  /\ UNCHANGED <<coreVars, singletonVars, connectVars, stopService, hasMemory,
                 allowedChatIds, sendVars, parseVars>>

\* memory.saveMessages of the collected records, then the response: 200, or 500 from the
\* handler's catch when saving throws
respond(saved) ==
  /\ phase = "handling" /\ left.inbound = 0 /\ left.outbound = 0
  /\ saved \/ records # {}
  /\ phase' = "idle"
  /\ response' = IF saved THEN 200 ELSE 500
  /\ UNCHANGED <<coreVars, singletonVars, connectVars, stopService, hasMemory,
                 allowedChatIds, flags, lastFlagCall, left, seen, records, storeThrew,
                 sendVars, parseVars>>

InitWebhook ==
  /\ InitCore({FALSE}, {DEFAULT_MAX_RETRIES}, {DEFAULT_POLL_TIMEOUT_SECONDS}, 1)
  /\ InitSingletonWith({TRUE})
  /\ InitConnectWith({TRUE})
  /\ InitRouteWith(BOOLEAN, BOOLEAN, {{}, {"c1"}, ChatIds}, {TRUE}, {"token"})

NextWebhook ==
  \/ \E nIn \in 0..MaxPayload, nOut \in 0..MaxPayload : handleWebhook(nIn, nOut)
  \/ \E status \in {400, 401, 500} : rejectWebhook(status)
  \/ \E message \in InboundMessages,
        outcome \in {"reply", "reply by fallback", "empty", "timeout"} :
       processInboundMessages(message, "described", outcome)
  \/ \E message \in OutboundMessages, ok \in BOOLEAN : persistOutboundMessages(message, ok)
  \/ \E saved \in BOOLEAN : respond(saved)

SpecWebhook == InitWebhook /\ [][NextWebhook]_vars

(* --------------- webhook route: the inbound pass of a payload ---------- *)
InitInbound ==
  /\ InitCore({FALSE}, {DEFAULT_MAX_RETRIES}, {DEFAULT_POLL_TIMEOUT_SECONDS}, 1)
  /\ InitSingletonWith({TRUE})
  /\ InitConnectWith({TRUE})
  /\ InitRouteWith({TRUE}, {TRUE}, {{"c1"}}, {TRUE}, {"token"})

NextInbound ==
  \/ \E nIn \in 0..MaxPayload : handleWebhook(nIn, 0)
  \/ \E message \in InboundContents \cup {m \in InboundMessages : m.isEcho = Missing},
        media \in {"described", "nothing"},
        outcome \in {"reply", "reply by fallback", "empty", "error", "timeout", "hangs"} :
       processInboundMessages(message, media, outcome)
  \/ respond(TRUE)

SpecInbound == InitInbound /\ [][NextInbound]_vars


(* ------------------ sendReplyToWazzup: queue or direct ---------------- *)
\* USE_WAZZUP_QUEUE is 'false': sendReplyToWazzup awaits sendReplyViaHttp
sendReplyDirect ==
  /\ ~useQueue /\ routePc = "idle" /\ replies < MaxMsgs
  /\ routeMsg' = replyPayload(replies + 1)
  /\ replies' = replies + 1
  /\ routePc' = "http"
  /\ UNCHANGED <<backendVars, now, cfgVars, connVars, workerVars, stopVars, apiVars,
                 countVars, histVars, extVars>>

\* sendReplyViaHttp(reply t) settles, sent or not (no token, a non-ok response, a timeout
\* and any other error are logged and swallowed): the awaited call lets
\* sendReplyToWazzup return, the one dispatched by the catch runs on its own
sendReplyViaHttp(t, ok) ==
  /\ httpResult[t] = "none"
  /\ \/ /\ routePc = "http" /\ routeMsg.text = t
        /\ routePc' = "idle" /\ routeMsg' = NoMsg
     \/ /\ t \in direct
        /\ UNCHANGED <<routePc, routeMsg>>
  /\ httpResult' = [httpResult EXCEPT ![t] = IF ok THEN "sent" ELSE "failed"]
  /\ UNCHANGED <<backendVars, now, cfgVars, connVars, workerVars, stopVars, replies,
                 apiVars, countVars, histVars, singletonVars, connectVars, webhookVars,
                 useQueue, tokenVars, parseVars>>

InitSend ==
  /\ InitCore({FALSE}, {DEFAULT_MAX_RETRIES}, {DEFAULT_POLL_TIMEOUT_SECONDS}, 1)
  /\ InitSingletonWith({TRUE})
  /\ InitConnectWith({TRUE})
  /\ InitRouteWith({TRUE}, {TRUE}, {ChatIds}, BOOLEAN, {"token"})

NextSend ==
  \/ useQueue /\ sendReplyEnqueue
  \/ useQueue /\ sendReplyEnqueueThrows
  \/ sendReplyQueued
  \/ sendReplyLenThrows
  \/ sendReplyDirect
  \/ \E t \in Texts, ok \in BOOLEAN : sendReplyViaHttp(t, ok)
  \/ backendDown
  \/ backendRestored

SpecSend == InitSend /\ [][NextSend]_vars


(* ===================================================================== *)
(* Properties                                                            *)
(* ===================================================================== *)

\* where the copies of the outbound message with text t are
copiesInMain(t) == Cardinality({i \in DOMAIN main : main[i].text = t})
copiesInDead(t) == Cardinality({i \in DOMAIN dead : dead[i].text = t})
\* a loop holds a message from the pop until processMessage has handed it on
inFlight(l) == pc[l] \in {"send", "retry", "catch"}
copiesInFlight(t) == Cardinality({l \in Loops : inFlight(l) /\ msg[l].text = t})
\* a loop is still inside processMessage for t
beingProcessed(t) ==
  \E l \in Loops : pc[l] \in {"send", "retry", "retry_len", "catch", "catch_len"} /\ msg[l].text = t

\* C1: every outbound message is in at most one of the main list, the dead-letter list
\* and a worker's hands; it is appended to the dead-letter list at most once, and only
\* after a failed send at which its attempt had reached maxRetries.
C1_AtMostOnePlace ==
  /\ \A t \in Texts : copiesInMain(t) + copiesInDead(t) + copiesInFlight(t) <= 1
  /\ \A i \in DOMAIN dead : dead[i].attempt >= maxRetries /\ fails[dead[i].text] > 0

\* C2: a message first enqueued with attempt 1 is never in the dead-letter list before
\* its maxRetries-th failed send, and once that send has been handled it is in the
\* dead-letter list exactly once and absent from the main list.
C2_DeadLetteredAfterMaxRetries ==
  \A t \in Texts :
    /\ fails[t] < maxRetries => copiesInDead(t) = 0
    /\ (fails[t] = maxRetries /\ ~beingProcessed(t))
         => (copiesInDead(t) = 1 /\ copiesInMain(t) = 0)


\* a step that is the public call op, made directly on the queue service
apiCall(op) == calls' = calls + 1 /\ last'.op = op
\* the list `after` is the list `before` with exactly one record appended
appendsOne(before, after) ==
  Len(after) = Len(before) + 1 /\ SubSeq(after, 1, Len(before)) = before

\* C3: retryMessage(m) with (m.attempt or 0) >= maxRetries appends m unchanged to the
\* tail of the dead-letter list, leaves the main list alone and returns false; otherwise
\* it appends exactly one record to the tail of the main list, leaves the dead-letter
\* list alone and returns true.
C3_RetryMessageContract ==
  [][apiCall("retryMessage") =>
       IF attemptOr0(last'.arg) >= maxRetries
       THEN /\ appendsOne(dead, dead')
            /\ JSONparse(dead'[Len(dead')]) = last'.arg
            /\ main' = main
            /\ last'.ret = "false"
       ELSE /\ appendsOne(main, main')
            /\ main'[Len(main')].text = last'.arg.text
            /\ dead' = dead
            /\ last'.ret = "true"]_vars

\* C3 witness: a retryMessage call on an exhausted message has returned false after
\* another had returned true
C3_Witness ==
  /\ last.op = "retryMessage" /\ last.ret = "false"
  /\ attemptOr0(last.arg) >= maxRetries /\ maxRetries >= 1
  /\ Len(dead) = 1 /\ Len(main) = 1

\* the records of the two lists and the messages the loops hold
storedRecords ==
  {main[i] : i \in DOMAIN main} \cup {dead[i] : i \in DOMAIN dead}
    \cup {JSONstringify(msg[l]) : l \in {k \in Loops : inFlight(k)}}

\* loop l, holding a message after a failed send, re-enqueues it in this step
requeues(l) == pc[l] \in {"retry", "catch"} /\ pc'[l] \in {"retry_len", "catch_len"}

enqueueThenDequeue ==
  /\ last.op = "enqueue" /\ Len(main) = 1
  /\ apiCall("dequeue") /\ last'.ret = "message"

C6_TimestampSetOnce ==
  /\ \A i \in DOMAIN main : main[i].timestamp = born[main[i].text]
  /\ \A i \in DOMAIN dead : dead[i].timestamp = born[dead[i].text]
  /\ \A l \in Loops : inFlight(l) => msg[l].timestamp = born[msg[l].text]

\* C6 witness: a message re-enqueued and dead-lettered after time has moved on still
\* carries the time of its first enqueue
C6_Witness ==
  \E i \in DOMAIN dead :
    /\ dead[i].timestamp = born[dead[i].text]
    /\ dead[i].attempt > 1
    /\ now > born[dead[i].text]

\* C7: a dequeue(timeoutSeconds) waiting on an empty main list returns null once the
\* timeout has elapsed, whatever timeoutSeconds the caller passed; it is never left
\* blocked for good.
C7_DequeueReturnsNull ==
  (blocked # Undefined /\ main = <<>>) => ENABLED dequeueNull

\* C8: with no dequeue in flight, getStats() reports queueLength = records appended to
\* the main list minus records popped from it and deadLetterLength = records in the
\* dead-letter list, and changes neither list.
C8_GetStatsCounts ==
  [][apiCall("getStats") =>
       /\ last'.queueLength = pushed - popped
       /\ last'.deadLetterLength = Cardinality(DOMAIN dead)
       /\ main' = main /\ dead' = dead]_vars

\* C8 witness: getStats() called after one record was appended and popped again reports
\* an empty main list
C8_Witness ==
  /\ last.op = "getStats" /\ last.after = "dequeue"
  /\ pushed = 1 /\ popped = 1 /\ last.queueLength = 0


\* loop l issues a dequeue call in this step
issuesDequeue(l) == pc[l] # "dequeue" /\ pc'[l] = "dequeue"

\* C9: once a stop() call has resolved, no loop issues a dequeue call until start() is
\* called again, under any interleaving of start(), stop() and the loop; and stop() on
\* a worker that is not running resolves at once and changes nothing else.
C9_NoDequeueAfterStop ==
  /\ [][\A l \in Loops : issuesDequeue(l) => ~quiesced']_vars
  /\ [][\A k \in Stops : (stopCall(k) /\ ~isRunning) =>
          /\ stopPc'[k] = "resolved"
          /\ UNCHANGED <<backendVars, connVars, workerVars>>]_vars

\* loop l is created in this step
spawned(l) == pc[l] = "unborn" /\ pc'[l] # "unborn"

\* C10: start() on a running worker changes nothing; on a worker that is not running it
\* sets isRunning and spawns exactly one processing loop, which is left pending when
\* the call returns. Nothing else spawns a loop.
C10_StartContract ==
  /\ [][start =>
          IF isRunning
          THEN UNCHANGED <<workerVars, stopVars, connVars, backendVars>>
          ELSE /\ isRunning'
               /\ Cardinality({l \in Loops : spawned(l)}) = 1
               /\ \A l \in Loops : spawned(l) =>
                    processingPromise' = l /\ pc'[l] = "dequeue"
               /\ \A l \in Loops : ~spawned(l) => pc'[l] = pc[l]]_vars
  /\ [][(\E l \in Loops : spawned(l)) => (start /\ ~isRunning)]_vars

\* C10 witness: start() has been refused on a running worker, and after a stop() it has
\* spawned a second loop, which is pending
C10_Witness ==
  /\ warned /\ isRunning
  /\ processingPromise = 2 /\ pc[2] = "dequeue" /\ pc[1] = "done"


\* the positions of a live consumer loop
LoopPositions ==
  {"dequeue", "dequeue_issued", "send", "retry", "retry_len", "catch", "catch_len", "sleep"}

\* C11: while isRunning stays true the consumer loop never returns: after a failed send,
\* after an exception in processMessage (retryMessage throwing included) and after a
\* backend error in dequeue the loop is at a position from which it goes on, the
\* loop-level errors passing through the pause, and it always has a next step.
C11_LoopSurvivesFailures ==
  /\ [](\A l \in Loops : (isRunning /\ pc[l] # "unborn") => pc[l] \in LoopPositions)
  /\ [][\A l \in Loops :
          /\ (isRunning' /\ pc[l] \in LoopPositions) => pc'[l] \in LoopPositions
          /\ (isRunning' /\ pc[l] = "sleep" /\ pc'[l] # pc[l]) => pc'[l] = "dequeue"]_vars
  /\ [](\A l \in Loops :
          (isRunning /\ pc[l] \in LoopPositions /\ pollTimeoutSeconds > 0)
            => ENABLED (processQueue(l) \/ processMessage(l)))

\* C11 witness: retryMessage threw in the try block and in the catch block, the message
\* is gone, and the loop is calling dequeue again
C11_Witness ==
  /\ isRunning /\ pc[1] = "dequeue"
  /\ fails[1] >= 1 /\ 1 \notin delivered
  /\ copiesInMain(1) + copiesInDead(1) + copiesInFlight(1) = 0


\* loop l is handed a record by dequeue in this step
handed(l) == pc[l] \in {"dequeue", "dequeue_issued"} /\ pc'[l] = "send"

\* C13: with several workers draining the same main list, every record appended to main
\* is returned by at most one dequeue call: a pop hands the head of the list to exactly
\* one worker and removes it, so the records handed out and the records still in main
\* always add up to the records appended.
C13_ExclusivePop ==
  /\ [](popped + Len(main) = pushed)
  /\ [][\A l \in Loops : handed(l) =>
          /\ main # <<>> /\ main' = Tail(main)
          /\ msg'[l] = JSONparse(Head(main))
          /\ popped' = popped + 1
          /\ \A k \in Loops \ {l} : ~handed(k) /\ msg'[k] = msg[k]]_vars

\* C13 witness: two workers each hold a record of their own, popped from the same list
C13_Witness ==
  /\ pc[1] = "send" /\ pc[2] = "send"
  /\ msg[1].text # msg[2].text
  /\ popped = 2 /\ main = <<>>


\* C12: calls of getWazzupQueueWorker() with no stopWazzupQueueWorker() between them all
\* return the same instance; a call that finds a worker constructs none and spawns no
\* loop.
C12_SingleWorker ==
  /\ [](Cardinality(returnedSince) <= 1)
  /\ [][(gets' = gets + 1 /\ globalWorker # 0) =>
          /\ globalWorker' = globalWorker
          /\ constructed' = constructed
          /\ loopsSpawned' = loopsSpawned
          /\ returnedSince' = {globalWorker}]_vars

\* C12 witness: three calls in a row have returned the one worker constructed, which
\* runs one loop
C12_Witness ==
  /\ gets = 3 /\ constructed = 1 /\ globalWorker = 1
  /\ returnedSince = {1} /\ loopsSpawned[1] = 1
  /\ \A k \in SingletonStops : singletonStop[k].at = "idle"


\* C14: for one service instance at most one connect() is in flight; every caller that
\* waits, waits on that attempt, and a call arriving during it starts no other.
C14_OneConnectAttempt ==
  /\ [](\A s \in ConnectServices :
          /\ attempts[s] <= 1
          /\ (attempts[s] = 1) <=> (connectPromise[s] = "pending")
          /\ waiting[s] # {} => attempts[s] = 1)
  /\ [][\A s \in ConnectServices :
          (attempts[s] = 1 /\ waiting'[s] # waiting[s] /\ waiting[s] \subseteq waiting'[s])
            => /\ attempts'[s] = 1
               /\ connects'[s] = connects[s]
               /\ connectPromise'[s] = connectPromise[s]]_vars

\* C14 witness: two callers of the stop-flag store, which is not open, await the one
\* connect() in flight
C14_Witness ==
  /\ ~isOpen["flags"] /\ waiting["flags"] = {1, 2}
  /\ attempts["flags"] = 1 /\ connects["flags"] = 1


\* this step is a store call op(chatId) that completed
storeCall(op, chatId) ==
  /\ left'.outbound = left.outbound - 1
  /\ seen'.kind = "outbound" /\ seen'.called = op /\ ~seen'.threw
  /\ seen'.m.chatId = chatId

\* C15: the key "<prefix>:<chatId>" is present iff the last store call completed for that
\* chatId was setStop (absent if there was none); setStop and clearStop are idempotent,
\* and a call for one chatId leaves the flag of every other chatId as it was.
C15_FlagFollowsLastCall ==
  /\ [](\A c \in ChatIds : (<<WriterPrefix, c>> \in flags) <=> (lastFlagCall[c] = "setStop"))
  /\ [][\A c \in ChatIds :
          /\ storeCall("setStop", c) =>
               /\ <<WriterPrefix, c>> \in flags'
               /\ <<WriterPrefix, c>> \in flags => flags' = flags
          /\ storeCall("clearStop", c) =>
               /\ <<WriterPrefix, c>> \notin flags'
               /\ <<WriterPrefix, c>> \notin flags => flags' = flags
          /\ (storeCall("setStop", c) \/ storeCall("clearStop", c)) =>
               \A d \in ChatIds \ {c} :
                 (<<WriterPrefix, d>> \in flags') <=> (<<WriterPrefix, d>> \in flags)]_vars

\* C15 witness: c1 was stopped and started again, c2 was stopped and stays stopped
C15_Witness ==
  /\ lastFlagCall = [c \in ChatIds |-> IF c = "c1" THEN "clearStop" ELSE "setStop"]
  /\ flags = {<<WriterPrefix, "c2">>}

\* the outbound pass meets, in this step, a sent message for an allowed chat, written by
\* a human, whose trimmed and case-folded text is exactly word
operatorCommand(word) ==
  /\ left'.outbound = left.outbound - 1
  /\ seen'.kind = "outbound"
  /\ seen'.m.status = "sent"
  /\ seen'.m.chatId \in allowedChatIds
  /\ ~(seen'.m.isEcho = "true" /\ seen'.m.authorName = Missing)
  /\ seen'.m.text.body = word

\* C16: an outbound, human-authored message for an allowed chatId whose trimmed,
\* case-folded text is exactly "/stop" (resp. "/start") makes the handler call setStop
\* (resp. clearStop) for that chatId and is not collected for the conversation history,
\* in every configuration of the handler.
C16_CommandCallsStore ==
  [][/\ operatorCommand("/stop") => (seen'.called = "setStop" /\ records' = records)
     /\ operatorCommand("/start") => (seen'.called = "clearStop" /\ records' = records)]_vars

\* C17: no automated reply is sent for a chatId while its stop flag is present.
C17_NoReplyWhileStopped ==
  [][(left'.inbound # left.inbound /\ seen'.kind = "inbound" /\ seen'.replied)
       => <<WriterPrefix, seen'.m.chatId>> \notin flags]_vars

\* C18: a store call that throws is caught where it is made: the loop goes on to the
\* remaining messages, the command is not collected for the history, and the response
\* is what it is when the store call succeeds (200, unless saving the history throws).
C18_StoreFailureCaught ==
  /\ [][(left'.outbound # left.outbound /\ seen'.kind = "outbound" /\ seen'.threw) =>
          /\ phase' = "handling" /\ response' = 0
          /\ left'.outbound = left.outbound - 1
          /\ records' = records]_vars
  /\ [](phase = "handling" /\ storeThrew /\ left.inbound = 0 =>
          IF left.outbound > 0
          THEN ENABLED (\E message \in OutboundMessages, ok \in BOOLEAN :
                          persistOutboundMessages(message, ok))
          ELSE ENABLED respond(TRUE))
  /\ [][(phase = "handling" /\ phase' = "idle" /\ storeThrew) =>
          /\ left.inbound = 0 /\ left.outbound = 0
          /\ response' = 200 \/ (response' = 500 /\ records # {})]_vars

\* C18 witness: after a store call threw, a later message of the payload was collected
\* and the request was answered with 200
C18_Witness ==
  /\ phase = "idle" /\ storeThrew /\ response = 200
  /\ seen.kind = "outbound" /\ ~seen.threw /\ seen.m.text.body = "hi"
  /\ [chatId |-> seen.m.chatId, text |-> seen.m.text] \in records

C20_DirectSendFallback ==
  /\ [][~useQueue =>
          /\ main' = main /\ dead' = dead /\ direct' = direct
          /\ replies' # replies => (routePc' = "http" /\ routeMsg'.text = replies')]_vars
  /\ [][direct' # direct =>
          \E t \in Texts \ direct :
            /\ direct' = direct \cup {t}
            /\ httpResult[t] = "none" /\ httpResult' = httpResult
            /\ routePc' = "idle"]_vars
  /\ [][\A t \in Texts : httpResult[t] # "none" => httpResult'[t] = httpResult[t]]_vars
  /\ [](\A t \in Texts :
          httpResult[t] = "failed" => (copiesInMain(t) = 0 /\ copiesInDead(t) = 0))


\* C21: the handler answers 400, 401, 200 or 500; an enqueue that throws or a store call
\* that throws produces no error response and leaves the handler able to go on to its
\* response; a 500 comes only from another exception (the service, or saving history).
C21_ResponseCodes ==
  /\ [](response \in {0, 200, 400, 401, 500})
  /\ [][((seen'.kind = "inbound" /\ seen'.took = "reply by fallback"
             /\ left'.inbound # left.inbound)
          \/ (seen'.kind = "outbound" /\ seen'.threw /\ left'.outbound # left.outbound)) =>
          (phase' = "handling" /\ response' = 0)]_vars
  /\ [](phase = "handling" =>
          ENABLED (\/ \E message \in InboundMessages :
                        processInboundMessages(message, "described", "empty")
                   \/ \E message \in OutboundMessages :
                        persistOutboundMessages(message, TRUE)
                   \/ respond(TRUE)))
  /\ [][(response' = 500 /\ response # 500) =>
          \/ phase = "idle"
          \/ (phase = "handling" /\ left.inbound = 0 /\ left.outbound = 0 /\ records # {})]_vars

\* C21 witness: the request whose reply could not be enqueued was answered with 200
C21_Witness ==
  /\ phase = "idle" /\ response = 200
  /\ seen.kind = "inbound" /\ seen.took = "reply by fallback"


\* C22: the handler starts on the next message of a payload only after the replies to the
\* earlier ones have been handed to the queue or to the direct send, so the replies of
\* one payload stand in the main list in the order of the messages that caused them.
C22_RepliesInPayloadOrder ==
  /\ [](\A i, j \in DOMAIN main : i < j => main[i].text < main[j].text)
  /\ [][replies' = replies + 1 =>
          /\ routePc = "idle"
          /\ \A t \in 1..replies :
               copiesInMain(t) > 0 \/ t \in direct \/ httpResult[t] # "none"]_vars

\* C22 witness: the replies to the first and to the second message are queued in that
\* order
C22_Witness ==
  /\ Len(main) = 2 /\ main[1].text = 1 /\ main[2].text = 2
  /\ routePc = "idle"


\* C23: an engine call that fails with a timeout aborts that item only: no reply for it,
\* and the later inbound messages of the payload are still processed, as after any other
\* engine error.
C23_TimeoutAbortsOneItem ==
  [][(seen'.kind = "inbound" /\ seen'.took \in {"timeout", "error"} /\ left' # left) =>
       /\ ~seen'.replied
       /\ left'.inbound = left.inbound - 1]_vars

\* C24: an agent invocation that does not return is abandoned when its timer expires, so
\* the handler goes on (to the next message or to its response).
C24_AgentCallBounded ==
  (phase = "handling" /\ seen.kind = "awaiting agent") =>
    ENABLED (\/ \E message \in InboundMessages :
                  processInboundMessages(message, "described", "empty")
             \/ respond(TRUE))


\* the handled inbound message last seen has no text left after trimming
noText(m) == m.text.body \in {Missing, ""}

\* C27: resolveMessageText returns null exactly when the message has no non-empty
\* trimmed text and no contentUri; a null result drops the item with no engine call, no
\* reply and no error; an audio message without text resolves to the transcription
\* segment when the transcription succeeds and to the audio-link segment otherwise.
C27_ResolveMessageText ==
  /\ [](seen.kind \in {"inbound", "awaiting agent"} /\ seen.handled =>
          /\ (seen.userText = <<>>) <=> (noText(seen.m) /\ seen.m.contentUri = Missing)
          /\ seen.userText = <<>> => (seen.took = "dropped" /\ ~seen.replied)
          /\ (noText(seen.m) /\ seen.m.contentUri # Missing /\ seen.m.type = "audio") =>
               seen.userText = IF seen.media = "described" THEN <<"transcript">>
                               ELSE <<"audio link">>)
  /\ [][(seen'.kind = "inbound" /\ seen'.took = "dropped" /\ left' # left) =>
          /\ left'.inbound = left.inbound - 1
          /\ phase' = "handling" /\ response' = response]_vars

\* C27 witness: the last message of the payload, without text and attachment, was
\* dropped
C27_Witness ==
  /\ seen.kind = "inbound" /\ seen.took = "dropped"
  /\ noText(seen.m) /\ seen.m.contentUri = Missing
  /\ left.inbound = 0

\* the elements of a list that JSON.parse rejects
unparsedIn(list) == Cardinality({i \in DOMAIN list : ~isJSON(list[i])})

\* this step pops an element that JSON.parse rejects
popsUnparsed == main # <<>> /\ ~isJSON(Head(main)) /\ popped' = popped + 1

\* C25: a record popped from main that fails to deserialize is dropped: it is removed
\* from main, dequeue returns null (the loop takes no message in hand and starts no
\* send), the record is appended neither to main nor to dead-letters, and the worker
\* goes on with its next iteration.
C25_UnparsedDropped ==
  /\ [](/\ unparsedIn(dead) = 0
        /\ unparsedIn(main) + dropped = garbage
        /\ \A l \in Loops : pc[l] \in {"send", "retry", "retry_len", "catch", "catch_len"}
                              => msg[l].text \in Texts)
  /\ [][popsUnparsed =>
          /\ main' = Tail(main)
          /\ dropped' = dropped + 1
          /\ UNCHANGED <<dead, msg, histVars>>
          /\ \E l \in Loops : /\ pc[l] \in {"dequeue", "dequeue_issued"}
                              /\ pc' = [pc EXCEPT ![l] = IF isRunning THEN "dequeue" ELSE "done"]]_vars

\* an unparseable record has been dropped and the worker is back at its next dequeue,
\* with a well-formed message waiting behind it
C25_Witness ==
  /\ dropped > 0 /\ dead = <<>>
  /\ main # <<>> /\ isJSON(Head(main))
  /\ \E l \in Loops : pc[l] = "dequeue"

\* message t has reached a terminal outcome: sent (in neither list) or dead-lettered
sentOutcome(t) == t \in delivered /\ copiesInDead(t) = 0
deadOutcome(t) == t \notin delivered /\ copiesInDead(t) = 1
settled(t) ==
  /\ copiesInMain(t) = 0 /\ ~beingProcessed(t)
  /\ sentOutcome(t) \/ deadOutcome(t)

\* C26: with running workers, a backend that does not fail and fair scheduling, every
\* well-formed message appended to main eventually reaches exactly one terminal
\* outcome, sent (then in neither list) or dead-lettered after its retries are
\* exhausted, and keeps it; it never stays in main forever.
C26_EveryMessageSettles ==
  /\ \A t \in Texts : (copiesInMain(t) > 0) ~> settled(t)
  /\ [](\A t \in Texts : /\ ~(t \in delivered /\ copiesInDead(t) > 0)
                         /\ copiesInDead(t) <= 1
                         /\ copiesInDead(t) = 1 => fails[t] = maxRetries)
  /\ [][\A t \in Texts : settled(t) => settled(t)']_vars

\* one message was sent and the other dead-lettered after maxRetries failed sends, and
\* main has drained
C26_Witness ==
  /\ main = <<>> /\ \A l \in Loops : ~inFlight(l)
  /\ \E t, u \in Texts : sentOutcome(t) /\ deadOutcome(u) /\ settled(t) /\ settled(u)

\* list'  is list with one element appended at its tail
appendedAtTail(before, after) ==
  Len(after) = Len(before) + 1 /\ SubSeq(after, 1, Len(before)) = before

\* C28: main is first-in first-out: a dequeue hands out the record that has been in
\* main longest (its head), enqueue appends at the tail, and a message re-enqueued by
\* retryMessage goes behind every record pending at that time; so while no send has
\* failed, a single worker sends the messages in the order they were enqueued.
C28_MainIsFifo ==
  /\ [][/\ main' # main => (main # <<>> /\ main' = Tail(main)) \/ appendedAtTail(main, main')
        /\ \A l \in Loops : handed(l) =>
             main # <<>> /\ msg'[l] = JSONparse(Head(main)) /\ main' = Tail(main)
        /\ routePc = "idle" /\ routePc' = "len" =>
             appendedAtTail(main, main') /\ main'[Len(main')].text = replies'
        /\ \A l \in Loops : requeues(l) =>
             appendedAtTail(main, main') /\ main'[Len(main')].text = msg[l].text]_vars
  /\ []((\A t \in Texts : fails[t] = 0) =>
          \A t \in delivered : \A u \in 1..(t - 1) : born[u] # Undefined => u \in delivered)

\* a message whose send failed was re-enqueued behind the one that was pending, and
\* that one has since been handed out ahead of it and sent
C28_Witness ==
  /\ fails[1] > 0 /\ copiesInMain(1) = 1
  /\ 2 \in delivered /\ fails[2] = 0

\* message t has an entry in dead-letters
deadLettered(t) == \E i \in DOMAIN dead : isJSON(dead[i]) /\ dead[i].text = t

\* this step is a clearDeadLetters call / a getDeadLetters call returning its messages
cleared == calls' = calls + 1 /\ last'.op = "clearDeadLetters"
gotDeadLetters == last' # last /\ last'.op = "getDeadLetters"

\* C29: dead-letters is terminal and append-only: apart from clearDeadLetters, no
\* operation removes, rewrites or reorders an entry (the list only grows at its tail),
\* and no operation moves a dead-lettered message back to main or sends it again.
C29_DeadLettersAppendOnly ==
  [][/\ dead' # dead => appendedAtTail(dead, dead') \/ cleared
     /\ \A t \in Texts : deadLettered(t) =>
          /\ copiesInMain(t)' = 0
          /\ ~beingProcessed(t)'
          /\ fails'[t] = fails[t]
          /\ t \notin delivered']_vars

\* a message was dead-lettered behind another client's entry, the list was read, and
\* both entries are still there in the order they were appended
C29_Witness ==
  /\ Len(dead) = 2 /\ ~isJSON(dead[1]) /\ isJSON(dead[2])
  /\ last.op = "getDeadLetters" /\ last.count = 2 /\ last.items = <<JSONparse(dead[2])>>

\* the first n elements of a sequence
firstN(list, n) == SubSeq(list, 1, IF n < Len(list) THEN n ELSE Len(list))

\* C30: for every count >= 0, getDeadLetters(count) returns at most count messages,
\* namely the first count well-formed entries of dead-letters in insertion order, and
\* changes neither list; clearDeadLetters() leaves dead-letters empty and main unchanged.
C30_GetDeadLettersBounded ==
  [][/\ gotDeadLetters =>
          /\ Len(last'.items) <= last'.count
          /\ last'.items = firstN(parseItems(dead), last'.count)
          /\ UNCHANGED <<main, dead>>
     /\ cleared => dead' = <<>> /\ main' = main]_vars

\* loop l is inside processQueue
active(l) == pc[l] \in LoopPositions

\* stop() call k calls queueService.disconnect() in this step
disconnects(k) == stopPc[k] = "await_loop" /\ stopPc'[k] \in {"quit", "resolved"}

\* C31: after stop() is called on a running worker the loop finishes the iteration it
\* is in (a message already dequeued is handed on before the loop returns) and exits;
\* stop() eventually resolves, and disconnect() is called only once no consumer loop is
\* left running.
C31_CooperativeShutdown ==
  /\ \A k \in Stops : (stopPc[k] = "await_loop") ~> (stopPc[k] = "resolved")
  /\ [][\A l \in Loops : (active(l) /\ pc'[l] = "done") =>
          /\ msg'[l] = NoMsg
          /\ \A t \in Texts : (inFlight(l) /\ msg[l].text = t) =>
                t \in delivered' \/ copiesInMain(t)' > 0 \/ copiesInDead(t)' > 0]_vars
  /\ [][\A k \in Stops : disconnects(k) => \A l \in Loops : ~active(l)]_vars

\* C33: for a single worker at most one consumer loop is active at any instant, under
\* every interleaving of start() and stop() calls, and every stop() call that was
\* started eventually resolves.
C33_OneLoopAtATime ==
  /\ [](Cardinality({l \in Loops : active(l)}) <= 1)
  /\ \A k \in Stops : (stopPc[k] # "idle") ~> (stopPc[k] = "resolved")

\* C32: a stop flag changes only when an operator command is detected: only in the
\* outbound pass, at a sent message that is not an echo and not authored by the agent,
\* for an allowed chatId, whose trimmed and case-folded text is exactly "/stop" or
\* "/start"; nothing else (inbound processing, enqueue, the worker) changes a flag.
C32_FlagsChangeOnlyOnCommand ==
  [][flags' # flags =>
       /\ left'.outbound = left.outbound - 1 /\ left'.inbound = left.inbound
       /\ seen'.kind = "outbound"
       /\ seen'.m.status = "sent"
       /\ seen'.m.isEcho # "true"
       /\ source(seen'.m) # "agent"
       /\ seen'.m.chatId \in allowedChatIds
       /\ seen'.m.text.body \in {"/stop", "/start"}
       /\ UNCHANGED <<main, dead>>]_vars

\* reply t was appended to main by the enqueue of sendReplyToWazzup
appendedToMain(t) == born[t] # Undefined

\* C34: a reply handed to sendReplyToWazzup takes exactly one delivery path: it is
\* appended to main or sent directly by the fallback, never both, also when enqueue
\* throws after its append has gone through.
C34_OneDeliveryPath ==
  /\ \A t \in Texts : ~(appendedToMain(t) /\ t \in direct)
  /\ \A t \in 1..replies : routeMsg.text # t => (appendedToMain(t) \/ t \in direct)

\* loop l leaves processMessage in this step with a message whose send had failed
finishesFailed(l) ==
  /\ pc[l] \in {"retry", "retry_len", "catch", "catch_len"}
  /\ pc'[l] \in {"dequeue", "dequeue_issued", "sleep", "done"}

\* C35: a dequeued message whose send failed is never lost: when the worker has
\* finished processing it, it is in main or in dead-letters, also when a backend
\* operation inside retryMessage throws.
C35_FailedMessageKept ==
  [][\A l \in Loops : \A t \in Texts :
       (finishesFailed(l) /\ msg[l].text = t) =>
         copiesInMain(t)' + copiesInDead(t)' >= 1]_vars

\* C36: after disconnect() has closed the connection, the next operation on the service
\* connects again before it uses the client: a dequeue of the worker is rejected only
\* while Redis is unreachable, and a dequeue that returns has left the client open, so
\* a worker that was stopped and started again goes on draining main.
C36_ReconnectsAfterDisconnect ==
  [][\A l \in Loops :
       /\ (pc[l] = "dequeue" /\ pc'[l] = "sleep") => ~backendUp
       /\ (pc[l] = "dequeue" /\ pc'[l] = "send") => isOpen'["worker"]]_vars

\* C37: when every message enters main through the webhook (enqueued with no attempt)
\* and maxRetries >= 1, every record in main has 1 <= attempt <= maxRetries and every
\* record in dead-letters has attempt = maxRetries.
C37_AttemptBounds ==
  maxRetries >= 1 =>
    /\ \A i \in DOMAIN main : main[i].attempt \in 1..maxRetries
    /\ \A i \in DOMAIN dead : dead[i].attempt = maxRetries

\* with maxRetries 3, one message is back in main for its last attempt and another has
\* been dead-lettered
C37_Witness ==
  /\ maxRetries = DEFAULT_MAX_RETRIES
  /\ \E i \in DOMAIN main : main[i].attempt = maxRetries
  /\ dead # <<>>

\* C38: under any interleaving of getWazzupQueueWorker() and stopWazzupQueueWorker()
\* calls, at most one worker is running its consumer loop, and a worker that is running
\* is the one the accessor returns: no running worker is left behind by a stop that
\* completes late.
C38_NoOrphanWorker ==
  /\ Cardinality({w \in Built : workerRunning[w]}) <= 1
  /\ \A w \in Built : workerRunning[w] => globalWorker = w


\* this step is connect() of service s rejecting
rejects(s) == connectPromise[s] = "pending" /\ connectPromise'[s] = "rejected"

\* this step is the catch of one waiter of service s
catches(s) == failed'[s] # failed[s] /\ failed'[s] \subseteq failed[s]

\* this step is an ensureClient() call of service s that goes on to await a connection
awaitsConnect(s) == waiting'[s] # waiting[s] /\ waiting[s] \subseteq waiting'[s]

\* C39: when a connection attempt fails every operation awaiting it is rejected; once the
\* rejections are handled no failed attempt stays stored, and the next operation starts a
\* fresh connect(); the catch of a waiter of the failed attempt never runs while a newer
\* attempt is in flight, so it clears none.
C39_FailedAttemptCleared ==
  /\ [](\A s \in ConnectServices : failed[s] = {} => connectPromise[s] # "rejected")
  /\ [][\A s \in ConnectServices :
          /\ rejects(s) => (failed'[s] = waiting[s] /\ failed'[s] # {} /\ waiting'[s] = {})
          /\ catches(s) =>
                /\ connectPromise[s] # "pending" /\ attempts[s] = 0
                /\ connectPromise'[s] = "undefined"
          /\ (awaitsConnect(s) /\ connectPromise[s] # "pending") =>
                /\ connects'[s] = connects[s] + 1
                /\ connectPromise'[s] = "pending" /\ attempts'[s] = 1]_vars

\* C39 witness: after a connect() of the stop-flag store failed with two callers waiting,
\* both of which were rejected, a second connect() is in flight
C39_Witness ==
  /\ connects["flags"] = 2 /\ attempts["flags"] = 1
  /\ connectPromise["flags"] = "pending" /\ waiting["flags"] = {1, 2}
  /\ failed["flags"] = {}


\* the process was started without a usable WAZZUP_API_TOKEN
noToken == apiToken \in {Missing, ""}

\* C40: with no send token configured the worker POSTs nothing and delivers nothing:
\* every message it dequeues counts as a failed send and goes to retryMessage, which
\* re-enqueues it until its attempt reaches maxRetries and then dead-letters it, so
\* every message of the main list ends in the dead-letter list, as many failed passes
\* behind it as maxRetries.
C40_NoTokenDrainsToDeadLetters ==
  /\ [](noToken =>
          /\ delivered = {} /\ fetched = {}
          /\ \A i \in DOMAIN dead : dead[i].attempt = maxRetries)
  /\ [][noToken => \A l \in Loops :
          (pc[l] = "send" /\ pc'[l] # "send") =>
             /\ pc'[l] = "retry" /\ msg'[l] = msg[l]
             /\ fails'[msg[l].text] = fails[msg[l].text] + 1]_vars
  /\ \A t \in Texts :
        (noToken /\ copiesInMain(t) > 0) ~>
          /\ copiesInMain(t) = 0 /\ copiesInDead(t) = 1
          /\ fails[t] = maxRetries
          /\ \A l \in Loops : msg[l] = NoMsg \/ msg[l].text # t

\* C40 witness: with the token absent and three attempts allowed, both replies have
\* failed three passes and lie in the dead-letter list; main is empty, nothing delivered
C40_Witness ==
  /\ apiToken = Missing /\ maxRetries = DEFAULT_MAX_RETRIES
  /\ main = <<>> /\ Len(dead) = MaxMsgs
  /\ \A t \in Texts : fails[t] = maxRetries /\ copiesInDead(t) = 1
  /\ delivered = {} /\ fetched = {}

====
